---- MODULE Spec2Model ----
(***************************************************************************)
(* A model of the sage-patchbot coordination core.                         *)
(*                                                                         *)
(* Server side (sage_patchbot/server/serve.py): the report store with      *)
(* post_report, render_ticket, is_good_machine, log_name and               *)
(* prune_pending; the status derivation get_ticket_status with min_status  *)
(* and the status route.                                                   *)
(* Worker side (src/patchbot.py): rate_ticket, get_one_ticket, the head of *)
(* test_a_ticket and the cooldown table to_skip.                           *)
(***************************************************************************)
EXTENDS Integers, Sequences, FiniteSets, TLC

VARIABLES
    db,         \* the tickets collection: ticket id -> stored ticket document
    logs,       \* the log store (db.logs): the set of keys holding a log blob
    now,        \* the server clock (datetime.utcnow()), in seconds
    ticks,      \* how many times the clock has advanced
    posts,      \* how many requests have been handled
    last,       \* what the last request did (observation of the handler run)
    status_run, \* what the last get_ticket_status call was given and gave
    to_skip,    \* Patchbot.to_skip: ticket id -> deadline (NoSkip: no entry)
    wnow,       \* the worker's clock (time.time()), in seconds
    wticks,     \* how many times the worker's clock has advanced
    sel,        \* what the last test_a_ticket run of the worker did
    rate_run,   \* what the last rate_ticket call of the worker was given and gave
    fn_run,     \* one call of min_status or compare_machines: arguments, result
    req,        \* the post_report requests in progress, one per posting machine
    loop,       \* the worker's main(): where it is and what it last called
    memo        \* the caches of the timed cached functions, and the last call

svars == <<db, logs, now, ticks, posts, last, status_run>>
wvars == <<to_skip, wnow, wticks, sel, rate_run>>
pvars == <<req, loop, memo>>
vars == <<svars, wvars, fn_run, pvars>>

(***************************************************************************)
(* Bounds of the model.                                                    *)
(***************************************************************************)
MaxPosts == 3
MaxTicks == 2

(***************************************************************************)
(* Program constants and the input alphabet.                               *)
(***************************************************************************)
\* prune_pending: timeout = 6 * 60 * 60 when none is given
DefaultTimeout == 6 * 60 * 60

\* machines that are banned from posting their reports
BLACKLIST == {"sage4", "Gentoo Base System/2.2/x86_64/4.14.78-gentoo/sage4"}

\* the fields post_report asserts to be present in a report
RequiredFields == {"status", "spkgs", "base", "machine", "time"}

TicketIds == {0, 1}

\* identity vectors, most general component first, host name last;
\* two of them share the host name h1
MachineVectors ==
    { <<"Linux", "h1">>, <<"Darwin", "h1">>, <<"Linux", "h2">>, <<"Linux", "sage4">> }

ReportStatuses == {"Pending", "TestsPassed", "BuildFailed"}

\* machine=None of prune_pending: no stored report has an empty vector
NoMachine == <<>>

\* the clock steps the model takes: a whole lease, then one second more,
\* so that a report posted before the first step is first exactly as old
\* as the timeout and then older
ClockStep(k) == IF k % 2 = 0 THEN DefaultTimeout ELSE 1

(***************************************************************************)
(* Documents.                                                              *)
(***************************************************************************)
\* a ticket id that find_one does not find
NoTicket(t) ==
    [id |-> t, exists |-> FALSE, hasReports |-> FALSE, reports |-> <<>>,
     retry |-> "absent", last_activity |-> -1]

\* what the tracker feed gives for a ticket the database does not hold:
\* a document with neither 'reports' nor 'retry'
FreshTicket(t) ==
    [id |-> t, exists |-> TRUE, hasReports |-> FALSE, reports |-> <<>>,
     retry |-> "absent", last_activity |-> -1]

Report(s, m, tm) == [status |-> s, machine |-> m, time |-> tm]

\* "%s" % x for an integer ticket id and for a ticket document
StrOfId(t) == [kind |-> "int", val |-> [id |-> t, reports |-> <<>>]]
StrOfTicket(tk) == [kind |-> "dict", val |-> [id |-> tk.id, reports |-> tk.reports]]

LastOf(m) == m[Len(m)]

(***************************************************************************)
(* log_name(ticket_id, report)                                             *)
(***************************************************************************)
log_name(ticket_str, report) ==
    [pending |-> (report.status = "Pending"),
     ticket  |-> ticket_str,
     machine |-> report.machine,
     time    |-> report.time]

(***************************************************************************)
(* list helpers: list.remove(x), sorted(key=time), sort(key=time,          *)
(* reverse=True); both sorts are stable                                    *)
(***************************************************************************)
RECURSIVE RemoveFirst(_, _)
RemoveFirst(s, r) ==
    IF s = <<>> THEN <<>>
    ELSE IF Head(s) = r THEN Tail(s)
    ELSE <<Head(s)>> \o RemoveFirst(Tail(s), r)

\* insert r after every element whose time is <= r.time
RECURSIVE InsertAsc(_, _)
InsertAsc(s, r) ==
    IF s = <<>> THEN <<r>>
    ELSE IF Head(s).time <= r.time THEN <<Head(s)>> \o InsertAsc(Tail(s), r)
    ELSE <<r>> \o s

RECURSIVE SortAsc(_)
SortAsc(s) ==
    IF s = <<>> THEN <<>>
    ELSE InsertAsc(SortAsc(SubSeq(s, 1, Len(s) - 1)), s[Len(s)])

\* insert r after every element whose time is >= r.time
RECURSIVE InsertDesc(_, _)
InsertDesc(s, r) ==
    IF s = <<>> THEN <<r>>
    ELSE IF Head(s).time >= r.time THEN <<Head(s)>> \o InsertDesc(Tail(s), r)
    ELSE <<r>> \o s

RECURSIVE SortDesc(_)
SortDesc(s) ==
    IF s = <<>> THEN <<>>
    ELSE InsertDesc(SortDesc(SubSeq(s, 1, Len(s) - 1)), s[Len(s)])

(***************************************************************************)
(* db.remove_log(key): the external log store drops the blob of that key;  *)
(* a key that holds nothing changes nothing                                *)
(***************************************************************************)
remove_log(store, key) == store \ {key}

(***************************************************************************)
(* prune_pending(ticket, machine=None, timeout=None)                       *)
(*                                                                         *)
(* failAt = k > 0: the k-th db.remove_log call of this run raises (an      *)
(* external fault); failAt = 0: none does.                                 *)
(* The result: the in-memory report list, whether the call raised, the     *)
(* reports removed, the (report, key) pairs handed to db.remove_log, and   *)
(* the log store afterwards.                                               *)
(***************************************************************************)
\* the key prune_pending hands to db.remove_log for a removed report
PruneLogKey(ticket, report) == log_name(StrOfTicket(ticket), report)

\* variants of the drop test: the host name alone decides; the lease ends
\* at the timeout instead of after it; only the timeout decides
PruneDropsByHostName(report, machine, timeout, clock) ==
    \/ (machine # <<>> /\ LastOf(report.machine) = LastOf(machine))
    \/ (clock - report.time) > timeout

PruneDropsAtTimeout(report, machine, timeout, clock) ==
    \/ report.machine = machine
    \/ (clock - report.time) >= timeout

PruneDropsTimeoutOnly(report, machine, timeout, clock) ==
    (clock - report.time) > timeout

\* the test under which a Pending report is dropped
PruneDrops(report, machine, timeout, clock) ==
    \/ report.machine = machine
    \/ (clock - report.time) > timeout

RECURSIVE PruneLoop(_, _, _, _, _, _, _)
PruneLoop(snapshot, i, machine, timeout, clock, failAt, acc) ==
    IF i > Len(snapshot) THEN acc
    ELSE
        LET report == snapshot[i] IN
        IF report.status = "Pending" /\ PruneDrops(report, machine, timeout, clock)
        THEN
            LET tk2    == [acc.ticket EXCEPT !.reports = RemoveFirst(@, report)]
                key    == PruneLogKey(tk2, report)
                calls2 == acc.calls + 1
                acc2   == [acc EXCEPT !.ticket  = tk2,
                                      !.removed = Append(@, report),
                                      !.asked   = Append(@, [report |-> report, key |-> key]),
                                      !.calls   = calls2]
            IN  IF calls2 = failAt
                THEN [acc2 EXCEPT !.raised = TRUE]
                ELSE PruneLoop(snapshot, i + 1, machine, timeout, clock, failAt,
                               [acc2 EXCEPT !.store = remove_log(@, key)])
        ELSE PruneLoop(snapshot, i + 1, machine, timeout, clock, failAt, acc)

prune_pending(ticket, machine, clock, store, failAt) ==
    PruneLoop(ticket.reports, 1, machine, DefaultTimeout, clock, failAt,
              [ticket |-> ticket, raised |-> FALSE, removed |-> <<>>,
               asked |-> <<>>, calls |-> 0, store |-> store])

\* variant: the reports taken off are returned
PruneReturn_removed(pr) == IF pr.raised THEN <<>> ELSE pr.removed

\* "return reports": what a prune_pending run gives back, the list that is
\* the ticket's 'reports' (nothing when the run raised)
PruneReturn(pr) == IF pr.raised THEN <<>> ELSE pr.ticket.reports

(***************************************************************************)
(* is_good_machine(machine): "true", "false", or "raise" when ticket 0 is  *)
(* not in the database (find_one gives None)                               *)
(***************************************************************************)
GoodStatuses == {"TestsPassed", "TestsFailed"}

\* variant: any good report of that host counts, not only its latest
is_good_machine_ever(name) ==
    LET ticket == db[0] IN
    IF ~ticket.exists THEN "raise"
    ELSE IF ~ticket.hasReports THEN "true"
    ELSE IF \E i \in DOMAIN ticket.reports :
               /\ LastOf(ticket.reports[i].machine) = name
               /\ ticket.reports[i].status \in GoodStatuses
         THEN "true" ELSE "false"

is_good_machine(name) ==
    LET ticket == db[0] IN
    IF ~ticket.exists THEN "raise"
    ELSE IF ~ticket.hasReports THEN "true"
    ELSE
        LET sorted == SortAsc(ticket.reports)
            mine   == SelectSeq(sorted, LAMBDA rep : LastOf(rep.machine) = name)
        IN  IF mine = <<>> THEN "false"
            ELSE IF mine[Len(mine)].status \in GoodStatuses THEN "true" ELSE "false"

(***************************************************************************)
(* Requests.                                                               *)
(***************************************************************************)
\* the report a client submits: a dict with every required field
ValidSubs(machines, statuses) ==
    [kind : {"dict"}, missing : {"none"}, status : statuses,
     machine : machines, time : {now}]

\* json.loads may give something that is no dict, and a dict may lack one
\* of the required fields
MalformedSubs ==
    [kind : {"notdict"}, missing : {"none"}, status : {"TestsPassed"},
     machine : {<<"Linux", "h1">>}, time : {now}]
    \cup
    [kind : {"dict"}, missing : RequiredFields, status : {"TestsPassed"},
     machine : {<<"Linux", "h1">>}, time : {now}]

NoSub ==
    [kind |-> "none", missing |-> "none", status |-> "none",
     machine |-> NoMachine, time |-> 0]

NoRun ==
    [op |-> "none", ticket |-> 0, sub |-> NoSub, kick |-> FALSE,
     answer |-> "none", pruned |-> FALSE, pruneMachine |-> NoMachine,
     pruneIn |-> <<>>, pruneOut |-> <<>>, raised |-> FALSE,
     removed |-> <<>>, asked |-> <<>>, returned |-> <<>>, clock |-> 0]

\* variant: the blacklist is not consulted
RejectsWithoutBlacklist(t, sub, tracDown) ==
    \/ (~db[t].exists /\ tracDown)
    \/ sub.kind # "dict"
    \/ sub.missing # "none"
    \/ (t # 0 /\ is_good_machine(LastOf(sub.machine)) # "true")

\* the checks of post_report that come before prune_pending: TRUE when the
\* submission is turned down (an assertion fails or an exception is raised)
Rejects(t, sub, tracDown) ==
    \/ (~db[t].exists /\ tracDown)                  \* scrape raises
    \/ sub.kind # "dict"                            \* "report is not a dict"
    \/ sub.missing # "none"                         \* "<fld> missing in report"
    \/ LastOf(sub.machine) \in BLACKLIST            \* blacklisted
    \/ (t # 0 /\ is_good_machine(LastOf(sub.machine)) # "true")

(***************************************************************************)
(* post_report(ticket_id)                                                  *)
(***************************************************************************)
post_report(t, sub, failAt, tracDown) ==
    /\ posts < MaxPosts
    /\ tracDown => ~db[t].exists
    /\ failAt > 0 =>
          /\ ~Rejects(t, sub, tracDown)
          /\ prune_pending([db[t] EXCEPT !.hasReports = TRUE], sub.machine, now,
                           logs, failAt).raised
    /\ LET found  == db[t]
           ticket == [(IF found.exists THEN found ELSE FreshTicket(t))
                         EXCEPT !.hasReports = TRUE]
           report == Report(sub.status, sub.machine, sub.time)
           pr     == prune_pending(ticket, sub.machine, now, logs, failAt)
           run    == [NoRun EXCEPT !.op = "post", !.ticket = t, !.sub = sub,
                                   !.clock = now]
       IN  IF Rejects(t, sub, tracDown)
           THEN /\ last' = [run EXCEPT !.answer = "error"]
                /\ UNCHANGED <<db, logs, posts>>
           ELSE LET run2 == [run EXCEPT !.pruned = TRUE,
                                        !.pruneMachine = sub.machine,
                                        !.pruneIn = ticket.reports,
                                        !.pruneOut = pr.ticket.reports,
                                        !.raised = pr.raised,
                                        !.removed = pr.removed,
                                        !.asked = pr.asked,
                                        !.returned = PruneReturn(pr)]
                IN  IF pr.raised
                    THEN /\ last' = [run2 EXCEPT !.answer = "error"]
                         /\ logs' = pr.store
                         /\ UNCHANGED <<db, posts>>
                    ELSE /\ last' = [run2 EXCEPT !.answer = "ok"]
                         /\ logs' = pr.store \cup {log_name(StrOfId(t), report)}
                         /\ db' = [db EXCEPT ![t] =
                                     [pr.ticket EXCEPT
                                        !.reports = Append(@, report),
                                        !.retry = IF @ = "absent" THEN "absent" ELSE "False",
                                        !.last_activity = now]]
                         /\ posts' = posts + 1
    /\ UNCHANGED <<now, ticks, status_run>>
    /\ UNCHANGED <<wvars, fn_run, pvars>>

(***************************************************************************)
(* render_ticket(ticket), as far as it touches the stored ticket           *)
(***************************************************************************)
render_ticket(t, kick, failAt, tracDown) ==
    /\ failAt > 0 =>
          prune_pending([db[t] EXCEPT !.reports = SortDesc(@)], NoMachine, now,
                        logs, failAt).raised
    /\ LET found == db[t]
           \* scrape(...), and tickets.find_one when it raises
           info0 == IF tracDown THEN found
                    ELSE IF found.exists THEN found ELSE FreshTicket(t)
           run   == [NoRun EXCEPT !.op = "render", !.ticket = t, !.kick = kick,
                                  !.clock = now]
       IN  IF ~info0.exists
           THEN /\ last' = [run EXCEPT !.answer = "No such ticket."]
                /\ UNCHANGED <<db, logs>>
           ELSE LET info1  == IF kick THEN [info0 EXCEPT !.retry = "True"] ELSE info0
                    dbKick == IF kick THEN [db EXCEPT ![t] = info1] ELSE db
                    info2  == [info1 EXCEPT !.hasReports = TRUE,
                                            !.reports = SortDesc(@)]
                    pr     == prune_pending(info2, NoMachine, now, logs, failAt)
                    run2   == [run EXCEPT !.pruned = TRUE,
                                          !.pruneMachine = NoMachine,
                                          !.pruneIn = info2.reports,
                                          !.pruneOut = pr.ticket.reports,
                                          !.raised = pr.raised,
                                          !.removed = pr.removed,
                                          !.asked = pr.asked,
                                          !.returned = PruneReturn(pr)]
                IN  /\ logs' = pr.store
                    /\ IF pr.raised
                       THEN /\ last' = [run2 EXCEPT !.answer = "error"]
                            /\ db' = dbKick
                       ELSE /\ last' = [run2 EXCEPT !.answer = "page"]
                            /\ db' = IF info2.reports # pr.ticket.reports
                                     THEN [dbKick EXCEPT ![t] = pr.ticket]
                                     ELSE dbKick
    /\ UNCHANGED <<now, ticks, posts, status_run>>
    /\ UNCHANGED <<wvars, fn_run, pvars>>

(***************************************************************************)
(* post_report(ticket_id) as two requests run it side by side: the handler *)
(* reads the document (tickets.find_one), works on its own copy and writes *)
(* the whole copy back (db.save_ticket); nothing is held in between.       *)
(***************************************************************************)
RaceMachines == { <<"Linux", "h1">>, <<"Linux", "h2">> }

\* pc "idle": no request of this machine is in the handler; "read": its
\* request holds a copy of the document and has not written it back;
\* accepted: the reports of this machine that were answered "ok"
NoReq ==
    [m \in RaceMachines |->
        [pc |-> "idle", ticket |-> FreshTicket(0), sub |-> NoSub,
         accepted |-> <<>>]]

InFlight == Cardinality({m \in RaceMachines : req[m].pc = "read"})

\* tickets.find_one (or scrape) and the checks; a request that is turned
\* down answers "error" and changes nothing
post_report_read(t, m, sub) ==
    /\ posts + InFlight < MaxPosts
    /\ req[m].pc = "idle"
    /\ sub.machine = m
    /\ ~Rejects(t, sub, FALSE)
    /\ req' = [req EXCEPT ![m] =
                 [@ EXCEPT !.pc = "read",
                           !.ticket = [(IF db[t].exists THEN db[t]
                                        ELSE FreshTicket(t))
                                          EXCEPT !.hasReports = TRUE],
                           !.sub = sub]]
    /\ UNCHANGED <<svars, wvars, fn_run, loop, memo>>

\* db.save_ticket(ticket): the reports the document is stored with are those
\* of the copy the request holds
SavedReports(t, ticket, report) == Append(ticket.reports, report)

\* prune_pending on the copy, the append, logs.put and db.save_ticket
post_report_write(t, m) ==
    /\ req[m].pc = "read"
    /\ LET sub    == req[m].sub
           report == Report(sub.status, sub.machine, sub.time)
           pr     == prune_pending(req[m].ticket, sub.machine, now, logs, 0)
       IN  /\ logs' = pr.store \cup {log_name(StrOfId(t), report)}
           /\ db' = [db EXCEPT ![t] =
                       [pr.ticket EXCEPT
                          !.reports = SavedReports(t, pr.ticket, report),
                          !.retry = IF @ = "absent" THEN "absent" ELSE "False",
                          !.last_activity = now]]
           /\ posts' = posts + 1
           /\ req' = [req EXCEPT ![m] =
                        [@ EXCEPT !.pc = "idle",
                                  !.accepted = Append(@, report)]]
    /\ UNCHANGED <<now, ticks, last, status_run>>
    /\ UNCHANGED <<wvars, fn_run, loop, memo>>

\* time passes
Tick ==
    /\ ticks < MaxTicks
    /\ now' = now + ClockStep(ticks)
    /\ ticks' = ticks + 1
    /\ UNCHANGED <<db, logs, posts, last, status_run>>
    /\ UNCHANGED <<wvars, fn_run, pvars>>

(***************************************************************************)
(* get_ticket_status(ticket, base, machine) and what it rests on.          *)
(***************************************************************************)
\* variant: the order of the older server, without TestsPassedOnRetry
status_order_legacy ==
    << "New", "ApplyFailed", "BuildFailed", "TestsFailed", "PluginFailed",
       "TestsPassed", "Pending", "PluginOnlyFailed", "PluginOnly", "NoPatch",
       "Spkg" >>

status_order ==
    << "New", "ApplyFailed", "BuildFailed", "TestsFailed", "PluginFailed",
       "TestsPassed", "TestsPassedOnRetry", "Pending", "PluginOnlyFailed",
       "PluginOnly", "NoPatch", "Spkg" >>

KnownStatuses == { status_order[i] : i \in DOMAIN status_order }

\* status_order.index(status), for a status of the list
StatusIndex(status) ==
    CHOOSE i \in DOMAIN status_order :
        /\ status_order[i] = status
        /\ \A j \in 1 .. i - 1 : status_order[j] # status

\* variant: the first status of the list stands for the least one
min_status_first(status_list) ==
    IF \/ status_list = <<>>
       \/ \E i \in DOMAIN status_list : status_list[i] \notin KnownStatuses
    THEN [raised |-> TRUE, status |-> ""]
    ELSE [raised |-> FALSE, status |-> status_list[1]]

\* min_status(status_list): index raises ValueError for a status that is not
\* in status_order, and min raises ValueError for the empty list
min_status(status_list) ==
    IF \/ status_list = <<>>
       \/ \E i \in DOMAIN status_list : status_list[i] \notin KnownStatuses
    THEN [raised |-> TRUE, status |-> ""]
    ELSE [raised |-> FALSE,
          status |-> status_order[
              CHOOSE k \in { StatusIndex(status_list[i]) : i \in DOMAIN status_list } :
                  \A i \in DOMAIN status_list : k <= StatusIndex(status_list[i]) ]]

\* base='latest': the greatest base version among the reports
LatestBase(reports) ==
    CHOOSE b \in { reports[i].base : i \in DOMAIN reports } :
        \A i \in DOMAIN reports : reports[i].base <= b

\* the base a query asks for: <<>> is 'latest', <<b>> is version b
WantedBase(reports, base) ==
    IF base = <<>> THEN LatestBase(reports) ELSE base[1]

\* util.current_reports(ticket, base): the reports of the requested base, in
\* the order of the ticket's list
current_reports(ticket, base) ==
    IF ticket.reports = <<>> THEN <<>>
    ELSE SelectSeq(ticket.reports,
                   LAMBDA r : r.base = WantedBase(ticket.reports, base))

\* ','.join(status_list)
RECURSIVE JoinComma(_)
JoinComma(status_list) ==
    IF status_list = <<>> THEN ""
    ELSE IF Len(status_list) = 1 THEN status_list[1]
    ELSE status_list[1] \o "," \o JoinComma(Tail(status_list))

StatusOf(reports) == [i \in DOMAIN reports |-> reports[i].status]

\* machine=None
AnyMachine == <<>>

\* the part of get_ticket_status that reads the reports left after the filter
StatusFromReports(status_list) ==
    IF Cardinality({ status_list[i] : i \in DOMAIN status_list }) = 1
    THEN [outcome |-> "return", count |-> Len(status_list),
          single |-> status_list[1], composite |-> status_list[1]]
    ELSE IF min_status(status_list).raised
    THEN [outcome |-> "raise", count |-> 0, single |-> "", composite |-> ""]
    ELSE [outcome |-> "return", count |-> Len(status_list),
          single |-> min_status(status_list).status,
          composite |-> JoinComma(status_list)]

StatusSentinel(status) ==
    [outcome |-> "return", count |-> 0, single |-> status, composite |-> status]

\* the reports get_ticket_status looks at
FilteredReports(ticket, base, machine) ==
    IF machine = AnyMachine THEN current_reports(ticket, base)
    ELSE SelectSeq(current_reports(ticket, base), LAMBDA r : r.machine = machine)

\* variant: the status of the first report stands for all of them
get_ticket_status_first(ticket, base, machine) ==
    IF FilteredReports(ticket, base, machine) # <<>>
    THEN [StatusFromReports(StatusOf(FilteredReports(ticket, base, machine)))
             EXCEPT !.single = FilteredReports(ticket, base, machine)[1].status]
    ELSE IF ticket.spkgs # <<>> THEN StatusSentinel("Spkg")
    ELSE IF ticket.git_commit = <<>> THEN StatusSentinel("NoPatch")
    ELSE StatusSentinel("New")

\* variant: the test for git_commit is left out
get_ticket_status_no_commit_test(ticket, base, machine) ==
    IF FilteredReports(ticket, base, machine) # <<>>
    THEN StatusFromReports(StatusOf(FilteredReports(ticket, base, machine)))
    ELSE IF ticket.spkgs # <<>> THEN StatusSentinel("Spkg")
    ELSE StatusSentinel("New")

\* variant: git_commit is looked at before spkgs
get_ticket_status_commit_first(ticket, base, machine) ==
    IF FilteredReports(ticket, base, machine) # <<>>
    THEN StatusFromReports(StatusOf(FilteredReports(ticket, base, machine)))
    ELSE IF ticket.git_commit = <<>> THEN StatusSentinel("NoPatch")
    ELSE IF ticket.spkgs # <<>> THEN StatusSentinel("Spkg")
    ELSE StatusSentinel("New")

\* variant: "if ticket.get('git_commit')" for "if not ticket.get('git_commit')"
get_ticket_status_commit_swapped(ticket, base, machine) ==
    IF FilteredReports(ticket, base, machine) # <<>>
    THEN StatusFromReports(StatusOf(FilteredReports(ticket, base, machine)))
    ELSE IF ticket.spkgs # <<>> THEN StatusSentinel("Spkg")
    ELSE IF ticket.git_commit # <<>> THEN StatusSentinel("NoPatch")
    ELSE StatusSentinel("New")

get_ticket_status(ticket, base, machine) ==
    IF FilteredReports(ticket, base, machine) # <<>>
    THEN StatusFromReports(StatusOf(FilteredReports(ticket, base, machine)))
    ELSE IF ticket.spkgs # <<>> THEN StatusSentinel("Spkg")
    ELSE IF ticket.git_commit = <<>> THEN StatusSentinel("NoPatch")
    ELSE StatusSentinel("New")

(***************************************************************************)
(* The callers of get_ticket_status: one call on a given ticket document,  *)
(* and the status route on a stored ticket.                                *)
(***************************************************************************)
MaxReports == 3

StatusReport(status, machine, base) ==
    [status |-> status, machine |-> machine, base |-> base]

\* the reports a ticket document may hold: of two machines, two base
\* versions, and one with a status that is not in status_order
StatusReports ==
    { StatusReport("TestsPassed", <<"Linux", "h1">>, 1),
      StatusReport("TestsFailed", <<"Linux", "h2">>, 1),
      StatusReport("Pending", <<"Linux", "h1">>, 1),
      StatusReport("TestsPassed", <<"Linux", "h2">>, 2),
      StatusReport("Garbled", <<"Linux", "h1">>, 1) }

\* spkgs: a list of urls; git_commit: <<>> when the ticket has none
StatusTicket(reports, spkgs, git_commit) ==
    [reports |-> reports, spkgs |-> spkgs, git_commit |-> git_commit]

SpkgsChoices == { <<>>, <<"http://host/pkg.spkg">> }
CommitChoices == { <<>>, <<"c0ffee">> }

NoResult == [outcome |-> "none", count |-> 0, single |-> "", composite |-> ""]

NoStatusRun ==
    [drawn |-> FALSE, called |-> FALSE, ticket |-> StatusTicket(<<>>, <<>>, <<>>),
     base |-> <<>>, machine |-> AnyMachine, result |-> NoResult]

\* the calls that may be made: the ticket document, the base and the
\* machine filter
StatusInputs ==
    { [drawn |-> TRUE, called |-> FALSE,
       ticket |-> StatusTicket(reports, spkgs, git_commit),
       base |-> base, machine |-> machine, result |-> NoResult] :
        reports \in UNION { [1 .. n -> StatusReports] : n \in 0 .. MaxReports },
        spkgs \in SpkgsChoices, git_commit \in CommitChoices,
        base \in { <<>>, <<1>> },
        machine \in { AnyMachine, <<"Linux", "h1">>, <<"Linux", "h2">> } }

\* get_ticket_status(ticket, base, machine) on the given document
show_status ==
    /\ status_run.drawn
    /\ ~status_run.called
    /\ status_run' =
          [status_run EXCEPT
              !.called = TRUE,
              !.result = get_ticket_status(status_run.ticket, status_run.base,
                                           status_run.machine)]
    /\ UNCHANGED <<db, logs, now, ticks, posts, last>>
    /\ UNCHANGED <<wvars, fn_run, pvars>>

\* the stored document of ticket t as get_ticket_status reads it: every
\* report of the store is of the one base version the workers test on
StoredTicket(t, spkgs, git_commit) ==
    StatusTicket([i \in DOMAIN db[t].reports |->
                     StatusReport(db[t].reports[i].status,
                                  db[t].reports[i].machine, 1)],
                 spkgs, git_commit)

\* what the status route remembers of its call
StatusRun(ticket, base, machine) ==
    [drawn |-> FALSE, called |-> TRUE, ticket |-> ticket, base |-> base,
     machine |-> machine, result |-> get_ticket_status(ticket, base, machine)]

\* ticket_status(ticket): the status of a stored ticket whose document has
\* the given spkgs and git_commit, for the latest base
ticket_status(t, spkgs, git_commit) ==
    /\ db[t].exists
    /\ status_run' = StatusRun(StoredTicket(t, spkgs, git_commit), <<>>, AnyMachine)
    /\ UNCHANGED <<db, logs, now, ticks, posts, last>>
    /\ UNCHANGED <<wvars, fn_run, pvars>>

(***************************************************************************)
(* The worker (patchbot.py).                                               *)
(***************************************************************************)
WorkerTicketIds == {0, 1, 2}

\* to_skip has no entry for the ticket
NoSkip == -1

\* get_config: default_bonus
DefaultBonus ==
    [needs_review |-> 1000, positive_review |-> 500, blocker |-> 100,
     critical |-> 60, major |-> 10, unique |-> 40, applies |-> 20, behind |-> 1]

\* the worker's identity vector and the same machine under another host name
WorkerMachine == <<"Linux", "1", "x86_64", "5", "h1">>
OtherHost     == <<"Linux", "1", "x86_64", "5", "h2">>

\* get_config: the defaults, with a trusted-author list from the server;
\* machine_match is <<n>>, or <<>> for None
DefaultConfig ==
    [bonus |-> DefaultBonus, trusted_authors |-> {"alice"},
     machine |-> WorkerMachine, machine_match |-> <<5>>]

\* bonus.get(key, 0)
BonusGet(bonus, key) == IF key \in DOMAIN bonus THEN bonus[key] ELSE 0

RECURSIVE SumBonus(_, _)
SumBonus(bonus, names) ==
    IF names = <<>> THEN 0
    ELSE BonusGet(bonus, Head(names)) + SumBonus(bonus, Tail(names))

MinInt(a, b) == IF a <= b THEN a ELSE b

\* s[:n] for n >= 0
Prefix(s, n) == SubSeq(s, 1, MinInt(n, Len(s)))

(***************************************************************************)
(* compare_machines(a, b, machine_match)                                   *)
(***************************************************************************)
\* variant: machine_match is ignored, the whole vectors are compared
compare_machines_whole(a, b, machine_match) ==
    LET diff == [i \in 1 .. MinInt(Len(a), Len(b)) |-> IF a[i] # b[i] THEN 1 ELSE 0]
    IN  IF Len(a) # Len(b) THEN Append(diff, 1) ELSE diff

\* variant: the trailing 1 is appended only when a is the longer vector
compare_machines_longer(a, b, machine_match) ==
    LET a1   == IF machine_match = <<>> THEN a ELSE Prefix(a, machine_match[1])
        b1   == IF machine_match = <<>> THEN b ELSE Prefix(b, machine_match[1])
        diff == [i \in 1 .. MinInt(Len(a1), Len(b1)) |->
                    IF a1[i] # b1[i] THEN 1 ELSE 0]
    IN  IF Len(a1) > Len(b1) THEN Append(diff, 1) ELSE diff

compare_machines(a, b, machine_match) ==
    LET a1   == IF machine_match = <<>> THEN a ELSE Prefix(a, machine_match[1])
        b1   == IF machine_match = <<>> THEN b ELSE Prefix(b, machine_match[1])
        diff == [i \in 1 .. MinInt(Len(a1), Len(b1)) |->
                    IF a1[i] # b1[i] THEN 1 ELSE 0]
    IN  IF Len(a1) # Len(b1) THEN Append(diff, 1) ELSE diff

\* any(x) for a tuple of integers
AnyTrue(x) == \E i \in DOMAIN x : x[i] # 0

\* a < b for two tuples of integers (Python's lexicographic order)
RECURSIVE TupleLess(_, _)
TupleLess(a, b) ==
    IF b = <<>> THEN FALSE
    ELSE IF a = <<>> THEN TRUE
    ELSE IF Head(a) # Head(b) THEN Head(a) < Head(b)
    ELSE TupleLess(Tail(a), Tail(b))

\* variant: the smaller entry at each position, for vectors of one length
TupleMin_componentwise(a, b) ==
    IF Len(a) # Len(b) THEN (IF TupleLess(b, a) THEN b ELSE a)
    ELSE [i \in DOMAIN a |-> MinInt(a[i], b[i])]

\* min(a, b)
TupleMin(a, b) == IF TupleLess(b, a) THEN b ELSE a

(***************************************************************************)
(* rate_ticket(ticket)                                                     *)
(*                                                                         *)
(* A rating is None (kind "none"), the baseline's (100, 100, 0) whose      *)
(* first component is an integer (kind "base"), or (uniqueness, rating,    *)
(* -id) with a tuple first (kind "tuple"); kind "raise": the call raised.  *)
(* purge: the call deleted the ticket's to_skip entry.                     *)
(***************************************************************************)
Rating(k, f, u, b, n, p) ==
    [kind |-> k, first |-> f, uniq |-> u, bonus |-> b, negid |-> n, purge |-> p]

NoneRating == Rating("none", 0, <<>>, 0, 0, FALSE)
RaisedRating == Rating("raise", 0, <<>>, 0, 0, FALSE)

\* return ((100), 100, 0)
BaseRating == Rating("base", 100, <<>>, 100, 0, FALSE)

\* variant: a closed ticket is still open for testing
OpenStatusesWide ==
    {"needs_review", "positive_review", "needs_info", "needs_work", "closed"}

OpenStatuses == {"needs_review", "positive_review", "needs_info", "needs_work"}

BadMilestones ==
    {"sage-duplicate/invalid/wontfix", "sage-feature", "sage-pending", "sage-wishlist"}

\* only_in_base of a report that recorded its base: the number of commits
\* of patchbot/base the report's base lacks, -1 when git does not know it
OnlyInBase(report) == IF report.in_repo THEN report.behind ELSE -1

\* variant: the points are taken off, an unknown base counting as 1 behind
StalePoints_lowers(bonus, only_in_base) ==
    - bonus["behind"] * (IF only_in_base = -1 THEN 1 ELSE only_in_base)

\* rating += bonus['behind'] * only_in_base
StalePoints(bonus, only_in_base) == bonus["behind"] * only_in_base

\* variant: only an unknown base keeps an equal machine from covering
Uncovered_unknown_only(report_uniqueness, only_in_base) ==
    IF only_in_base = -1 /\ ~AnyTrue(report_uniqueness)
    THEN <<0, 0, 0, 0, 1>> ELSE report_uniqueness

\* "if only_in_base and not any(report_uniqueness)":
\* report_uniqueness = (0, 0, 0, 0, 1)
Uncovered(report_uniqueness, only_in_base) ==
    IF only_in_base # 0 /\ ~AnyTrue(report_uniqueness)
    THEN <<0, 0, 0, 0, 1>> ELSE report_uniqueness

\* the points of one report for applying and for having been tested
ReportPoints(report, bonus) ==
    (IF report.status # "ApplyFailed" THEN BonusGet(bonus, "applies") ELSE 0)
    - BonusGet(bonus, "unique")

\* the loop over the current reports; acc.oib is <<only_in_base>>, or <<>>
\* while the name is not bound yet
RECURSIVE ScanReports(_, _, _)
ScanReports(reports, cfg, acc) ==
    IF reports = <<>> \/ acc.raised THEN acc
    ELSE
        LET report  == Head(reports)
            oib     == IF report.has_git_base THEN << OnlyInBase(report) >>
                       ELSE acc.oib
            rating1 == IF report.has_git_base
                       THEN acc.rating + StalePoints(cfg.bonus, oib[1])
                       ELSE acc.rating
        IN  IF oib = <<>>
            THEN [acc EXCEPT !.raised = TRUE]       \* NameError: only_in_base
            ELSE
                LET ru == Uncovered(compare_machines(report.machine, cfg.machine,
                                                     cfg.machine_match),
                                    oib[1])
                    rating2 == rating1 + ReportPoints(report, cfg.bonus)
                IN  ScanReports(Tail(reports), cfg,
                                [rating |-> rating2, uniq |-> TupleMin(acc.uniq, ru),
                                 oib |-> oib, raised |-> FALSE])

\* the end of rate_ticket, after the loop over the reports
RateScanned(ticket, scan, skip, clock) ==
    IF scan.raised THEN RaisedRating
    ELSE IF ~AnyTrue(scan.uniq) THEN NoneRating
    ELSE IF skip[ticket.id] # NoSkip /\ ~(skip[ticket.id] < clock)
         THEN NoneRating
    ELSE Rating("tuple", 0, scan.uniq, scan.rating, -ticket.id,
                skip[ticket.id] # NoSkip)

\* variant: the names of authors_fullnames count once
TicketBonus_once(ticket, bonus) ==
    SumBonus(bonus, ticket.authors_fullnames)
    + 2 * SumBonus(bonus, ticket.authors)
    + SumBonus(bonus, ticket.participants)
    + (IF ticket.component # "absent"
       THEN BonusGet(bonus, ticket.component) ELSE 0)
    + BonusGet(bonus, ticket.status)
    + BonusGet(bonus, ticket.priority)
    + BonusGet(bonus, ToString(ticket.id))

\* the bonus points of the ticket's people, component, status, priority, id
TicketBonus(ticket, bonus) ==
    2 * SumBonus(bonus, ticket.authors_fullnames)
    + 2 * SumBonus(bonus, ticket.authors)
    + SumBonus(bonus, ticket.participants)
    + (IF ticket.component # "absent"
       THEN BonusGet(bonus, ticket.component) ELSE 0)
    + BonusGet(bonus, ticket.status)
    + BonusGet(bonus, ticket.priority)
    + BonusGet(bonus, ToString(ticket.id))

\* variant: the reports are scanned whatever the retry flag
ScanTicket_always(ticket, cfg, start) == ScanReports(ticket.current, cfg, start)

\* "if not ticket.get('retry')": the loop over the current reports
ScanTicket(ticket, cfg, start) ==
    IF ticket.retry THEN start ELSE ScanReports(ticket.current, cfg, start)

rate_ticket(ticket, cfg, skip, clock) ==
    IF ticket.id = 0 THEN BaseRating
    ELSE IF ~ticket.git_branch THEN NoneRating
    ELSE IF ticket.status \notin OpenStatuses THEN NoneRating
    ELSE IF ticket.milestone \in BadMilestones THEN NoneRating
    ELSE IF ticket.authors_fullnames = <<>> THEN NoneRating
    ELSE IF \E i \in DOMAIN ticket.authors_fullnames :
               ticket.authors_fullnames[i] \notin cfg.trusted_authors
         THEN NoneRating
    ELSE RateScanned(ticket,
                     ScanTicket(ticket, cfg,
                                [rating |-> TicketBonus(ticket, cfg.bonus),
                                 uniq |-> <<100>>, oib |-> <<>>,
                                 raised |-> FALSE]),
                     skip, clock)

(***************************************************************************)
(* get_one_ticket()                                                        *)
(***************************************************************************)
\* r1 < r2 for two ratings that are not None, as Python 2 orders them: an
\* integer is smaller than any tuple
RatingLess(r1, r2) ==
    IF r1.kind = "base" /\ r2.kind = "base" THEN
        \/ r1.first < r2.first
        \/ (r1.first = r2.first /\ r1.bonus < r2.bonus)
        \/ (r1.first = r2.first /\ r1.bonus = r2.bonus /\ r1.negid < r2.negid)
    ELSE IF r1.kind = "base" THEN TRUE
    ELSE IF r2.kind = "base" THEN FALSE
    ELSE
        \/ TupleLess(r1.uniq, r2.uniq)
        \/ (r1.uniq = r2.uniq /\ r1.bonus < r2.bonus)
        \/ (r1.uniq = r2.uniq /\ r1.bonus = r2.bonus /\ r1.negid < r2.negid)

\* all.sort(): insert p after every element that is not greater
RECURSIVE InsertRated(_, _)
InsertRated(s, p) ==
    IF s = <<>> THEN <<p>>
    ELSE IF RatingLess(p.rating, Head(s).rating) THEN <<p>> \o s
    ELSE <<Head(s)>> \o InsertRated(Tail(s), p)

RECURSIVE SortRated(_)
SortRated(s) ==
    IF s = <<>> THEN <<>>
    ELSE InsertRated(SortRated(SubSeq(s, 1, Len(s) - 1)), s[Len(s)])

\* what get_one_ticket returns: all[-1]
PickRated(sorted) == sorted[Len(sorted)]

\* Python 3 refuses to order an integer and a tuple: sort() raises TypeError
\* when the list holds the baseline's rating beside another one
SortRaises(rated, py) ==
    /\ py = 3
    /\ \E i, j \in DOMAIN rated :
          rated[i].rating.kind = "base" /\ rated[j].rating.kind = "tuple"

\* variant: no entry is ever deleted
PurgeSkip_never(pairs, skip) == skip

\* the ratings' side effect on to_skip: entries that have run out are deleted
PurgeSkip(pairs, skip) ==
    [t \in DOMAIN skip |->
        IF \E i \in DOMAIN pairs : pairs[i].ticket.id = t /\ pairs[i].rating.purge
        THEN NoSkip ELSE skip[t]]

\* filter, sort and all[-1]
SelectRated(rated, py) ==
    IF SortRaises(rated, py) THEN [outcome |-> "TypeError", picked |-> <<>>]
    ELSE IF rated = <<>> THEN [outcome |-> "IndexError", picked |-> <<>>]
    ELSE [outcome |-> "return", picked |-> <<PickRated(SortRated(rated))>>]

\* get_one_ticket once every candidate is rated
ChooseRated(pairs, skip, py) ==
    [pairs |-> pairs, skip |-> PurgeSkip(pairs, skip)]
    @@ (IF \E i \in DOMAIN pairs : pairs[i].rating.kind = "raise"
        THEN [outcome |-> "NameError", picked |-> <<>>]
        ELSE SelectRated(SelectSeq(pairs, LAMBDA p : p.rating.kind # "none"), py))

get_one_ticket(all, cfg, skip, clock, py) ==
    ChooseRated([i \in DOMAIN all |->
                    [rating |-> rate_ticket(all[i], cfg, skip, clock),
                     ticket |-> all[i]]],
                skip, py)

(***************************************************************************)
(* test_a_ticket(ticket=None): the selection, and the cooldown a network   *)
(* failure of the test leaves                                              *)
(***************************************************************************)
MaxCands == 2

NoSel ==
    [all |-> <<>>, py |-> 0, fate |-> "none", outcome |-> "none",
     pairs |-> <<>>, picked |-> <<>>]

\* a ticket as the server lists it; current: the reports current_reports
\* gives for it
WTicket(id, branch, status, priority, authors, current) ==
    [id |-> id, git_branch |-> branch, status |-> status,
     milestone |-> "sage-7.0", priority |-> priority,
     authors_fullnames |-> authors, authors |-> <<>>, participants |-> <<>>,
     component |-> "absent", retry |-> FALSE, current |-> current]

WReport(status, machine, behind) ==
    [status |-> status, machine |-> machine, has_git_base |-> TRUE,
     in_repo |-> TRUE, behind |-> behind]

\* the tickets the server may list: the baseline, and for every other id a
\* fresh ticket, one of higher priority, one already tested on the same
\* machine under another host name, one already tested by this machine, and
\* one of an author the worker does not trust
Catalog ==
    { WTicket(0, FALSE, "base", "base", <<>>, <<>>) }
    \cup { WTicket(id, TRUE, "needs_review", "minor", <<"alice">>, <<>>)
             : id \in WorkerTicketIds \ {0} }
    \cup { WTicket(id, TRUE, "needs_review", "major", <<"alice">>, <<>>)
             : id \in WorkerTicketIds \ {0} }
    \cup { WTicket(id, TRUE, "needs_review", "critical", <<"alice">>,
                   << WReport("TestsPassed", OtherHost, 0) >>)
             : id \in WorkerTicketIds \ {0} }
    \cup { WTicket(id, TRUE, "needs_review", "minor", <<"alice">>,
                   << WReport("TestsPassed", WorkerMachine, 0) >>)
             : id \in WorkerTicketIds \ {0} }
    \cup { WTicket(id, TRUE, "needs_review", "blocker", <<"mallory">>, <<>>)
             : id \in WorkerTicketIds \ {0} }

\* the answers of the server's ticket list: tickets of different ids
CandidateLists ==
    { s \in UNION { [1 .. n -> Catalog] : n \in 0 .. MaxCands } :
        \A i, j \in DOMAIN s : i # j => s[i].id # s[j].id }

\* "if not ticket": a ticket document is never empty
Falsy(ticket) == DOMAIN ticket = {}

\* SkipTicket.seconds_till_retry of the tests that are skipped
SecondsTillRetry == 2 * 60 * 60

\* the ways a test may end: it ran to its end, the network or the tracker
\* failed, it was skipped, the ticket has spkgs, another exception
Fates == {"tested", "network_error", "skipped", "spkg", "exception"}

\* variant: a network failure counts as any other exception
Cooldown_long(fate) ==
    IF fate = "skipped" THEN << SecondsTillRetry >>
    ELSE IF fate \in {"network_error", "spkg", "exception"} THEN << 12 * 60 * 60 >>
    ELSE <<>>

\* the seconds test_a_ticket adds to time.time() for the to_skip entry of
\* the ticket, <<>> when it registers none
Cooldown(fate) ==
    IF fate = "network_error" THEN << 60 * 60 >>
    ELSE IF fate = "skipped" THEN << SecondsTillRetry >>
    ELSE IF fate \in {"spkg", "exception"} THEN << 12 * 60 * 60 >>
    ELSE <<>>

\* test_a_ticket after "rating, ticket = self.get_one_ticket()"
RunSelected(got, run, fate) ==
    IF got.outcome # "return"
    THEN /\ fate = "none"
         /\ sel' = run
         /\ to_skip' = got.skip
    ELSE IF Falsy(got.picked[1].ticket)
    THEN /\ fate = "none"
         /\ sel' = [run EXCEPT !.outcome = "idle"]
         /\ to_skip' = got.skip
    ELSE /\ fate # "none"
         /\ sel' = [run EXCEPT !.outcome = "testing", !.fate = fate]
         /\ to_skip' = IF Cooldown(fate) # <<>>
                       THEN [got.skip EXCEPT ![got.picked[1].ticket.id] =
                                                wnow + Cooldown(fate)[1]]
                       ELSE got.skip

\* what the selection saw and gave
SelRecord(got, all, py) ==
    [all |-> all, py |-> py, fate |-> "none", outcome |-> got.outcome,
     pairs |-> got.pairs, picked |-> got.picked]

Selection(got, all, py, fate) == RunSelected(got, SelRecord(got, all, py), fate)

test_a_ticket(all, py, fate) ==
    /\ Selection(get_one_ticket(all, DefaultConfig, to_skip, wnow, py),
                 all, py, fate)
    /\ UNCHANGED <<wnow, wticks, rate_run>>
    /\ UNCHANGED <<svars, fn_run, pvars>>

\* the worker's clock: an hour, then one second more
WClockStep(k) == IF k % 2 = 0 THEN 60 * 60 ELSE 1

WTick ==
    /\ wticks < MaxTicks
    /\ wnow' = wnow + WClockStep(wticks)
    /\ wticks' = wticks + 1
    /\ UNCHANGED <<to_skip, sel, rate_run>>
    /\ UNCHANGED <<svars, fn_run, pvars>>

(***************************************************************************)
(* One rate_ticket call of get_one_ticket's scan of the server's list, and *)
(* the cooldown a failed test registers.                                   *)
(***************************************************************************)
NoRated ==
    [called |-> FALSE, ticket |-> WTicket(0, FALSE, "base", "base", <<>>, <<>>),
     cfg |-> DefaultConfig, entry |-> NoSkip, left |-> NoSkip, clock |-> 0,
     rating |-> NoneRating]

\* a ticket every gate lets through
Eligible == WTicket(1, TRUE, "needs_review", "major", <<"alice">>, <<>>)

\* the ways a ticket may miss a gate, the first being none
GateVariants ==
    { Eligible,
      [Eligible EXCEPT !.git_branch = FALSE],
      [Eligible EXCEPT !.status = "closed"],
      [Eligible EXCEPT !.status = "positive_review"],
      [Eligible EXCEPT !.milestone = "sage-wishlist"],
      [Eligible EXCEPT !.milestone = "sage-duplicate/invalid/wontfix"],
      [Eligible EXCEPT !.authors_fullnames = <<>>],
      [Eligible EXCEPT !.authors_fullnames = <<>>, !.authors = <<"alice">>],
      [Eligible EXCEPT !.authors_fullnames = <<"mallory">>],
      [Eligible EXCEPT !.authors_fullnames = <<"alice", "mallory">>],
      [Eligible EXCEPT !.authors = <<"mallory">>],
      [Eligible EXCEPT !.authors = <<"alice">>, !.participants = <<"mallory">>],
      [Eligible EXCEPT !.participants = <<"alice", "bob">>,
                       !.component = "combinatorics"] }

\* the worker's host under another operating system
OtherSystem == <<"Darwin", "1", "x86_64", "5", "h1">>

\* a report that did not record its base commit
NoGitBase(report) == [report EXCEPT !.has_git_base = FALSE]

\* a report whose base commit the local repository does not hold
NotInRepo(report) == [report EXCEPT !.in_repo = FALSE]

\* the current reports a ticket may have
ReportVariants ==
    { <<>>,
      << WReport("TestsPassed", WorkerMachine, 0) >>,
      << WReport("ApplyFailed", OtherHost, 0) >>,
      << WReport("TestsPassed", WorkerMachine, 2) >>,
      << NotInRepo(WReport("TestsPassed", WorkerMachine, 0)) >>,
      << NoGitBase(WReport("TestsPassed", WorkerMachine, 0)) >>,
      << WReport("TestsPassed", OtherHost, 0),
         WReport("TestsPassed", WorkerMachine, 0) >>,
      << WReport("TestsPassed", OtherHost, 3) >>,
      << NotInRepo(WReport("BuildFailed", OtherHost, 0)) >>,
      << WReport("TestsPassed", OtherSystem, 0),
         WReport("ApplyFailed", OtherHost, 0) >>,
      << WReport("TestsPassed", OtherHost, 2),
         NoGitBase(WReport("TestsPassed", WorkerMachine, 0)) >> }

\* the tickets the server may list: every gate variant without reports and
\* with a report that did not record its base; the eligible ticket with
\* every list of reports, flagged for retry or not
RateTickets ==
    { [g EXCEPT !.current = c] :
        g \in GateVariants,
        c \in { <<>>, << NoGitBase(WReport("TestsPassed", WorkerMachine, 0)) >> } }
    \cup { [Eligible EXCEPT !.current = c, !.retry = r] :
             c \in ReportVariants, r \in BOOLEAN }

\* worker configurations: the defaults; a bonus table that favours an
\* untrusted name and compares four components; no limit on the comparison
RateConfigs ==
    { DefaultConfig,
      [DefaultConfig EXCEPT
          !.bonus = [mallory |-> 5000, alice |-> 7, major |-> 3,
                     combinatorics |-> 13, behind |-> 2]
                    @@ ("1" :> 11) @@ DefaultBonus,
          !.machine_match = <<4>>],
      [DefaultConfig EXCEPT !.machine_match = <<>>] }

\* the call's effect on to_skip, and what it is remembered by: the entry of
\* the ticket before (entry) and after (left) the call
RunRated(ticket, cfg, rating) ==
    /\ to_skip' = PurgeSkip(<< [ticket |-> ticket, rating |-> rating] >>, to_skip)
    /\ rate_run' = [called |-> TRUE, ticket |-> ticket, cfg |-> cfg,
                    entry |-> to_skip[ticket.id], left |-> to_skip'[ticket.id],
                    clock |-> wnow, rating |-> rating]

\* self.rate_ticket(t) for one ticket t of the list
rate_a_ticket(ticket, cfg) ==
    /\ RunRated(ticket, cfg, rate_ticket(ticket, cfg, to_skip, wnow))
    /\ UNCHANGED <<wnow, wticks, sel>>
    /\ UNCHANGED <<svars, fn_run, pvars>>

\* the test of ticket t met a network failure: no new test of it for an hour
skip_ticket(t) ==
    /\ to_skip[t] = NoSkip
    /\ to_skip' = [to_skip EXCEPT ![t] = wnow + 60 * 60]
    /\ UNCHANGED <<wnow, wticks, sel, rate_run>>
    /\ UNCHANGED <<svars, fn_run, pvars>>

(***************************************************************************)
(* One call of min_status on a list of statuses, together with the call of *)
(* get_ticket_status on a ticket whose current reports carry the statuses  *)
(* of the list; and one call of compare_machines.                          *)
(***************************************************************************)
MaxStatuses == 3
MaxVec == 3

\* the statuses a posted report may carry: post_report stores the status
\* field as it comes, so besides the twelve categories any other string
ReportableStatuses ==
    { "New", "ApplyFailed", "BuildFailed", "TestsFailed", "PluginFailed",
      "TestsPassed", "TestsPassedOnRetry", "Pending", "PluginOnlyFailed",
      "PluginOnly", "NoPatch", "Spkg", "Garbled" }

NoLeast == [raised |-> FALSE, status |-> ""]

NoFnRun ==
    [fn |-> "none", called |-> FALSE, status_list |-> <<>>,
     a |-> <<>>, b |-> <<>>, machine_match |-> <<>>,
     least |-> NoLeast, triple |-> NoResult, diff |-> <<>>]

\* the lists of statuses min_status may be given
MinInputs ==
    { [NoFnRun EXCEPT !.fn = "min_status", !.status_list = status_list] :
        status_list \in UNION { [1 .. n -> ReportableStatuses] : n \in 0 .. MaxStatuses } }

\* a ticket with a commit and no spkgs whose reports, all of one base,
\* carry the statuses of the list
TicketWith(status_list) ==
    StatusTicket([i \in DOMAIN status_list |->
                     StatusReport(status_list[i], <<"Linux", "h1">>, 1)],
                 <<>>, <<"c0ffee">>)

\* min_status(status_list), and get_ticket_status on reports of these statuses
show_min_status ==
    /\ fn_run.fn = "min_status"
    /\ ~fn_run.called
    /\ fn_run' =
          [fn_run EXCEPT
              !.called = TRUE,
              !.least = min_status(fn_run.status_list),
              !.triple = get_ticket_status(TicketWith(fn_run.status_list),
                                           <<>>, AnyMachine)]
    /\ UNCHANGED <<svars, wvars, pvars>>

\* identity vectors of up to MaxVec components
MachineComponents == {"x", "y"}
Vectors == UNION { [1 .. n -> MachineComponents] : n \in 0 .. MaxVec }

\* machine_match: None, or a number of leading components
MatchChoices == { <<>> } \cup { <<n>> : n \in 0 .. MaxVec }

CompareInputs ==
    { [NoFnRun EXCEPT !.fn = "compare_machines", !.a = a, !.b = b,
                      !.machine_match = machine_match] :
        a \in Vectors, b \in Vectors, machine_match \in MatchChoices }

\* compare_machines(a, b, machine_match)
show_compare ==
    /\ fn_run.fn = "compare_machines"
    /\ ~fn_run.called
    /\ fn_run' =
          [fn_run EXCEPT
              !.called = TRUE,
              !.diff = compare_machines(fn_run.a, fn_run.b, fn_run.machine_match)]
    /\ UNCHANGED <<svars, wvars, pvars>>

(***************************************************************************)
(* The worker rates a ticket as the server stores it.                      *)
(***************************************************************************)
\* a worker whose identity vector is one of those the store's reports carry
StoreConfig ==
    [DefaultConfig EXCEPT !.machine = <<"Linux", "h1">>, !.machine_match = <<2>>]

\* the document of stored ticket t as the worker reads it from the server's
\* list: its retry flag and its reports, all tested on the worker's base
WorkerView(t) ==
    [WTicket(t, TRUE, "needs_review", "major", <<"alice">>,
             [i \in DOMAIN db[t].reports |->
                 WReport(db[t].reports[i].status, db[t].reports[i].machine, 0)])
        EXCEPT !.retry = (db[t].retry = "True")]

\* self.rate_ticket(t) for the stored ticket t
rate_stored(t) ==
    /\ db[t].exists
    /\ RunRated(WorkerView(t), StoreConfig,
                rate_ticket(WorkerView(t), StoreConfig, to_skip, wnow))
    /\ UNCHANGED <<wnow, wticks, sel>>
    /\ UNCHANGED <<svars, fn_run, pvars>>

\* the empty store
StoreInit ==
    /\ db = [t \in TicketIds |-> NoTicket(t)]
    /\ logs = {}
    /\ now = 0
    /\ ticks = 0
    /\ posts = 0
    /\ last = NoRun

ServerInit ==
    /\ StoreInit
    /\ status_run = NoStatusRun

\* Patchbot.__init__: to_skip = {}
WorkerInit ==
    /\ to_skip = [t \in WorkerTicketIds |-> NoSkip]
    /\ wnow = 0
    /\ wticks = 0
    /\ sel = NoSel
    /\ rate_run = NoRated

(***************************************************************************)
(* main(args): the start-up test of the base and the loop over the         *)
(* tickets. What test_a_ticket and check_base give is an input.            *)
(***************************************************************************)
\* how many iterations the loop is asked for (--count)
MaxIters == 3

failure_status == {"BuildFailed", "TestsFailed"}
success_status == {"TestsPassed", "PluginOnly"}

\* the names of statuses bound when the loop body runs, with their values
MainNames ==
    [failure_status |-> failure_status, success_status |-> success_status]

\* what test_a_ticket returns: status[state], or None from its early returns
TestResults ==
    {"None", "ApplyFailed", "BuildFailed", "TestsFailed", "TestsPassed",
     "PluginOnly", "Pending"}

\* test_a_ticket(None): the worker picks the ticket
PickOne == -1

RanTest(t, res) == [fn |-> "test_a_ticket", ticket |-> t, res |-> res]
Distcleaned == [fn |-> "distclean", ticket |-> PickOne, res |-> "None"]

\* pc: "start" before the start-up test, "loop" between two iterations,
\* "exit" after sys.exit(1), "NameError" after that exception has left
\* main, "returned" when the loop has ended; calls: what the last step
\* called up to and with test_a_ticket(ticket); res: what that test gave;
\* after: what the step called after it
NoLoop ==
    [pc |-> "start", k |-> 0, count |-> MaxIters, tickets |-> <<>>,
     calls |-> <<>>, res |-> "", after |-> <<>>]

\* --ticket: a list of ticket ids, and then count = len(tickets)
TicketOptions == { <<>>, <<1>>, <<1, 2>> }

main_options(given) ==
    /\ loop = NoLoop
    /\ given # <<>>
    /\ loop' = [loop EXCEPT !.tickets = given, !.count = Len(given)]
    /\ UNCHANGED <<svars, wvars, fn_run, req, memo>>

\* lines 1317-1328
main_start(skip_base, have_good, plugin_only, res) ==
    /\ loop.pc = "start"
    /\ LET tests == ~skip_base /\ (plugin_only \/ ~have_good)
       IN  loop' = [loop EXCEPT
                      !.pc = IF tests /\ res \notin success_status
                             THEN "exit" ELSE "loop",
                      !.calls = IF tests THEN << RanTest(0, res) >> ELSE <<>>,
                      !.res = "",
                      !.after = <<>>]
    /\ UNCHANGED <<svars, wvars, fn_run, req, memo>>

\* lines 1332-1335: outside the allowed hours the iteration only sleeps
main_idle ==
    /\ loop.pc = "loop"
    /\ loop.k < loop.count
    /\ loop' = [loop EXCEPT !.k = @ + 1, !.calls = <<>>, !.res = "",
                            !.after = <<>>]
    /\ UNCHANGED <<svars, wvars, fn_run, req, memo>>

\* lines 1354-1365, given the value of the name tested against
AfterTest(failing, res, rres, rres2) ==
    IF res \notin failing THEN [pc |-> "loop", after |-> <<>>]
    ELSE IF rres \in success_status
    THEN [pc |-> "loop", after |-> << RanTest(0, rres) >>]
    ELSE [pc |-> IF rres2 \in success_status THEN "loop" ELSE "exit",
          after |-> << RanTest(0, rres), Distcleaned, RanTest(0, rres2) >>]

\* lines 1344-1365: one iteration inside the allowed hours. The test of
\* line 1354 reads the name "failures"; a name that is not bound raises
\* NameError, which nothing in main catches.
main_iteration(base_ok, bres, res, rres, rres2) ==
    /\ loop.pc = "loop"
    /\ loop.k < loop.count
    /\ LET ticket == IF loop.tickets # <<>> THEN Head(loop.tickets) ELSE PickOne
           rest   == IF loop.tickets # <<>> THEN Tail(loop.tickets) ELSE <<>>
           calls  == (IF base_ok THEN <<>> ELSE << RanTest(0, bres) >>)
                        \o << RanTest(ticket, res) >>
       IN  IF "failures" \notin DOMAIN MainNames
           THEN loop' = [loop EXCEPT !.pc = "NameError", !.tickets = rest,
                                     !.calls = calls, !.res = res,
                                     !.after = <<>>]
           ELSE LET then == AfterTest(MainNames["failures"], res, rres, rres2)
                IN  loop' = [loop EXCEPT !.pc = then.pc, !.k = @ + 1,
                                         !.tickets = rest, !.calls = calls,
                                         !.res = res, !.after = then.after]
    /\ UNCHANGED <<svars, wvars, fn_run, req, memo>>

\* range(count) is used up
main_return ==
    /\ loop.pc = "loop"
    /\ loop.k = loop.count
    /\ loop' = [loop EXCEPT !.pc = "returned", !.calls = <<>>, !.res = "",
                            !.after = <<>>]
    /\ UNCHANGED <<svars, wvars, fn_run, req, memo>>

(***************************************************************************)
(* timed_cached_function(refresh_rate): the decorated functions of the     *)
(* server and their caches.                                                *)
(***************************************************************************)
MaxCalls == 2
MaxMemoTicks == 3
MaxData == 1

CachedFunctions == {"latest_base", "base_reports_by_machine_and_base"}

\* @timed_cached_function() and @timed_cached_function(10)
refresh_rate(fn) == IF fn = "latest_base" THEN 60 ELSE 10

\* the argument tuples the functions are called with: latest_base() and
\* latest_base(False), base_reports_by_machine_and_base()
CacheKeys ==
    { <<"latest_base", <<>> >>, <<"latest_base", << FALSE >> >>,
      <<"base_reports_by_machine_and_base", <<>> >> }

\* what the decorated function computes from the reports of ticket 0 as
\* they are (data) for these arguments
func(fn, args, data) == [fn |-> fn, args |-> args, data |-> data]

\* no call yet: every cache is empty
NoMemo ==
    [cache    |-> [k \in CacheKeys |-> <<>>],
     computed |-> [k \in CacheKeys |-> <<>>],
     clock |-> 0, ticks |-> 0, data |-> 0, calls |-> 0,
     run |-> [called |-> FALSE, fn |-> "", args |-> <<>>, at |-> 0,
              invoked |-> FALSE, res |-> func("", <<>>, 0), prev |-> <<>>]]

\* variant: an entry of age refresh_rate is still used
Fresh_inclusive(clock, latest_update, rate) == clock - latest_update <= rate

\* "now - latest_update < refresh_rate"
Fresh(clock, latest_update, rate) == clock - latest_update < rate

\* wrap(*args) of the function fn, whose computation takes took seconds.
\* cache: args -> (latest_update, res); computed: for each argument tuple
\* the time of the call that last ran the function, and what it gave; run:
\* this call, with the last computation before it (prev)
wrap(fn, args, took) ==
    /\ memo.calls < MaxCalls
    /\ LET key   == <<fn, args>>
           entry == memo.cache[key]
           hit   == /\ entry # <<>>
                    /\ Fresh(memo.clock, entry[1].latest_update, refresh_rate(fn))
           res   == IF hit THEN entry[1].res ELSE func(fn, args, memo.data)
       IN  /\ ~hit \/ took = 0
           /\ memo' =
                [memo EXCEPT
                   !.cache[key] =
                       IF hit THEN @
                       ELSE << [latest_update |-> memo.clock, res |-> res] >>,
                   !.computed[key] =
                       IF hit THEN @ ELSE << [at |-> memo.clock, value |-> res] >>,
                   !.clock = @ + took,
                   !.calls = @ + 1,
                   !.run = [called |-> TRUE, fn |-> fn, args |-> args,
                            at |-> memo.clock, invoked |-> ~hit, res |-> res,
                            prev |-> memo.computed[key]]]
    /\ UNCHANGED <<svars, wvars, fn_run, req, loop>>

\* time.time() advances
MemoSteps == {1, 9, 50}

memo_tick(step) ==
    /\ memo.ticks < MaxMemoTicks
    /\ memo' = [memo EXCEPT !.clock = @ + step, !.ticks = @ + 1]
    /\ UNCHANGED <<svars, wvars, fn_run, req, loop>>

\* a report on ticket 0 is stored: the functions have something new to give
memo_data ==
    /\ memo.data < MaxData
    /\ memo' = [memo EXCEPT !.data = @ + 1]
    /\ UNCHANGED <<svars, wvars, fn_run, req, loop>>

\* no request is in progress
ProcInit == req = NoReq /\ loop = NoLoop /\ memo = NoMemo

Init == ServerInit /\ WorkerInit /\ ProcInit /\ fn_run = NoFnRun

\* which db.remove_log call of a request raises (0: none)
FailPoints == 0 .. 1

\* two workers that differ in their first component only
LeaseMachines == { <<"Linux", "h1">>, <<"Darwin", "h1">> }
LeaseStatuses == {"Pending", "TestsPassed"}

\* the report store of one ticket: the baseline ticket, whose reports no gate
\* filters
Next ==
    \/ \E sub \in ValidSubs(LeaseMachines, LeaseStatuses),
          failAt \in FailPoints, tracDown \in BOOLEAN :
          post_report(0, sub, failAt, tracDown)
    \/ \E kick \in BOOLEAN, failAt \in FailPoints, tracDown \in BOOLEAN :
          render_ticket(0, kick, failAt, tracDown)
    \/ Tick

Spec == Init /\ [][Next]_vars

\* two machines posting to the baseline ticket, their requests interleaved
NextRace ==
    \/ \E m \in RaceMachines :
          \E sub \in ValidSubs({m}, LeaseStatuses) : post_report_read(0, m, sub)
    \/ \E m \in RaceMachines : post_report_write(0, m)

SpecRace == Init /\ [][NextRace]_vars

\* calls of the cached functions while time passes and reports come in
NextMemo ==
    \/ \E k \in CacheKeys, took \in {0, 1} : wrap(k[1], k[2], took)
    \/ \E step \in MemoSteps : memo_tick(step)
    \/ memo_data

SpecMemo == Init /\ [][NextMemo]_vars

\* the worker's main()
NextMain ==
    \/ \E given \in TicketOptions : main_options(given)
    \/ \E skip_base, have_good, plugin_only \in BOOLEAN, res \in TestResults :
          main_start(skip_base, have_good, plugin_only, res)
    \/ main_idle
    \/ \E base_ok \in BOOLEAN, bres, res, rres, rres2 \in TestResults :
          main_iteration(base_ok, bres, res, rres, rres2)
    \/ main_return

SpecMain == Init /\ [][NextMain]_vars

\* the baseline ticket and one more ticket, whose reports is_good_machine gates
BaseMachines == { <<"Linux", "h1">>, <<"Linux", "h2">> }
GateMachines == { <<"Linux", "h1">>, <<"Darwin", "h1">>, <<"Linux", "h2">> }

NextGate ==
    \/ \E sub \in ValidSubs(BaseMachines, {"TestsPassed", "BuildFailed"}) :
          post_report(0, sub, 0, FALSE)
    \/ \E sub \in ValidSubs(GateMachines, {"TestsPassed"}) :
          post_report(1, sub, 0, FALSE)
    \/ \E kick \in BOOLEAN : render_ticket(0, kick, 0, FALSE)
    \/ Tick

SpecGate == Init /\ [][NextGate]_vars

\* submissions that post_report turns down before it touches the ticket
NextReject ==
    \/ \E t \in TicketIds,
          sub \in MalformedSubs
                   \cup ValidSubs({<<"Linux", "h1">>, <<"Linux", "sage4">>}, LeaseStatuses) :
          post_report(t, sub, 0, FALSE)
    \/ \E t \in TicketIds : render_ticket(t, TRUE, 0, FALSE)
    \/ Tick

SpecReject == Init /\ [][NextReject]_vars

\* the worker choosing its next ticket from the list the server answers;
\* the test it then runs ends without a cooldown
NextSelect ==
    \E all \in CandidateLists, py \in {2, 3}, fate \in {"none", "tested"} :
        test_a_ticket(all, py, fate)

SpecSelect == Init /\ [][NextSelect]_vars

\* the tickets of the server's list while the worker tests one after the
\* other: the baseline and two fresh tickets
CooldownCatalog ==
    { WTicket(0, FALSE, "base", "base", <<>>, <<>>),
      WTicket(1, TRUE, "needs_review", "minor", <<"alice">>, <<>>),
      WTicket(2, TRUE, "needs_review", "major", <<"alice">>, <<>>) }

CooldownLists ==
    { all \in UNION { [1 .. n -> CooldownCatalog] : n \in 0 .. MaxCands } :
        \A i, j \in DOMAIN all : i < j => all[i].id < all[j].id }

\* the worker tests ticket after ticket, the tests ending in every way, and
\* time passes
NextCooldown ==
    \/ \E all \in CooldownLists, fate \in Fates \cup {"none"} :
          test_a_ticket(all, 2, fate)
    \/ WTick

SpecCooldown == Init /\ [][NextCooldown]_vars

\* the worker rates tickets of the list, registers cooldowns, and time passes
NextRate ==
    \/ \E ticket \in RateTickets, cfg \in RateConfigs : rate_a_ticket(ticket, cfg)
    \/ \E ticket \in RateTickets : skip_ticket(ticket.id)
    \/ WTick

SpecRate == Init /\ [][NextRate]_vars

\* one get_ticket_status call on a document drawn at the start
InitStatus ==
    /\ StoreInit
    /\ WorkerInit
    /\ ProcInit
    /\ fn_run = NoFnRun
    /\ status_run \in StatusInputs

NextStatus == show_status

SpecStatus == InitStatus /\ [][NextStatus]_vars

\* reports are posted for the baseline and for one more ticket, and the
\* status of that ticket is asked for
NextDerive ==
    \/ \E sub \in ValidSubs({ <<"Linux", "h1">> }, {"TestsPassed"}) :
          post_report(0, sub, 0, FALSE)
    \/ \E sub \in ValidSubs({ <<"Linux", "h1">>, <<"Darwin", "h1">> },
                            {"TestsPassed", "TestsFailed"}) :
          post_report(1, sub, 0, FALSE)
    \/ \E spkgs \in SpkgsChoices, git_commit \in CommitChoices :
          ticket_status(1, spkgs, git_commit)

SpecDerive == Init /\ [][NextDerive]_vars

\* reports are posted for the baseline and for one more ticket, that ticket
\* is shown with or without a kick, and the worker rates it as stored
NextRetry ==
    \/ \E sub \in ValidSubs({ <<"Linux", "h1">>, <<"Linux", "h2">> }, {"TestsPassed"}) :
          post_report(0, sub, 0, FALSE)
    \/ \E sub \in ValidSubs({ <<"Linux", "h1">>, <<"Linux", "h2">> },
                            {"TestsPassed", "TestsFailed"}) :
          post_report(1, sub, 0, FALSE)
    \/ \E kick \in BOOLEAN : render_ticket(1, kick, 0, FALSE)
    \/ rate_stored(1)
    \/ skip_ticket(1)
    \/ WTick

SpecRetry == Init /\ [][NextRetry]_vars

\* one min_status call on a list of statuses drawn at the start
InitMin ==
    /\ ServerInit
    /\ WorkerInit
    /\ ProcInit
    /\ fn_run \in MinInputs

NextMin == show_min_status

SpecMin == InitMin /\ [][NextMin]_vars

\* one compare_machines call on vectors drawn at the start
InitCompare ==
    /\ ServerInit
    /\ WorkerInit
    /\ ProcInit
    /\ fn_run \in CompareInputs

NextCompare == show_compare

SpecCompare == InitCompare /\ [][NextCompare]_vars

TypeOK ==
    /\ now \in Nat
    /\ posts \in 0 .. MaxPosts
    /\ \A t \in TicketIds : db[t].id = t

(***************************************************************************)
(* Properties of the report store.                                         *)
(***************************************************************************)
Count(s, r) == Cardinality({i \in DOMAIN s : s[i] = r})

\* a is b with some elements left out
RECURSIVE IsSubseq(_, _)
IsSubseq(a, b) ==
    IF a = <<>> THEN TRUE
    ELSE IF b = <<>> THEN FALSE
    ELSE IF Head(a) = Head(b) THEN IsSubseq(Tail(a), Tail(b))
    ELSE IsSubseq(a, Tail(b))

PrunedBy(op) == last.op = op /\ last.pruned /\ ~last.raised

\* the reports C1 says a prune for machine M keeps
KeptByMachinePrune(r) ==
    \/ r.status # "Pending"
    \/ (r.machine # last.pruneMachine /\ last.clock - r.time <= DefaultTimeout)

\* C1: a prune_pending(ticket, machine=M) that returns has removed every
\* Pending report whose machine vector equals M, and has kept every
\* non-Pending report and every Pending report of another machine that is
\* not older than the timeout, in their relative order; it adds nothing.
C1_PruneByMachine ==
    PrunedBy("post") =>
        /\ \A i \in DOMAIN last.pruneOut :
              ~(last.pruneOut[i].status = "Pending"
                /\ last.pruneOut[i].machine = last.pruneMachine)
        /\ SelectSeq(last.pruneOut, KeptByMachinePrune)
             = SelectSeq(last.pruneIn, KeptByMachinePrune)
        /\ IsSubseq(last.pruneOut, last.pruneIn)

C1_Witness ==
    /\ PrunedBy("post")
    /\ \E i \in DOMAIN last.pruneIn :
          last.pruneIn[i].status = "Pending" /\ last.pruneIn[i].machine = last.pruneMachine
    /\ \E j \in DOMAIN last.pruneOut :
          last.pruneOut[j].status = "Pending" /\ last.pruneOut[j].machine # last.pruneMachine
    /\ Len(last.pruneOut) < Len(last.pruneIn)

\* C2: a prune_pending without a completing machine that returns has removed
\* a Pending report if and only if now - report.time > timeout (6 hours); a
\* Pending report of age <= timeout is still there.
C2_PruneByTimeout ==
    PrunedBy("render") =>
        \A i \in DOMAIN last.pruneIn :
            LET r == last.pruneIn[i] IN
            r.status = "Pending" =>
                Count(last.pruneOut, r) =
                    IF last.clock - r.time > 6 * 60 * 60 THEN 0
                    ELSE Count(last.pruneIn, r)

C2_Witness ==
    /\ PrunedBy("render")
    /\ \E i \in DOMAIN last.pruneIn :
          /\ last.pruneIn[i].status = "Pending"
          /\ last.clock - last.pruneIn[i].time > 6 * 60 * 60
          /\ Count(last.pruneOut, last.pruneIn[i]) = 0
    /\ \E j \in DOMAIN last.pruneOut : last.pruneOut[j].status = "Pending"

\* C3: whatever post_report and render_ticket requests have been handled,
\* the stored reports of a ticket hold at most one Pending report per
\* machine identity vector.
C3_OnePendingPerMachine ==
    \A t \in TicketIds :
        \A i, j \in DOMAIN db[t].reports :
            (i # j /\ db[t].reports[i].status = "Pending"
                   /\ db[t].reports[j].status = "Pending")
            => db[t].reports[i].machine # db[t].reports[j].machine

C3_Witness ==
    /\ last.op = "post" /\ last.answer = "ok"
    /\ last.sub.status = "Pending"
    /\ \E i \in DOMAIN last.removed : last.removed[i].machine = last.sub.machine
    /\ \E j \in DOMAIN db[last.ticket].reports :
          /\ db[last.ticket].reports[j].status = "Pending"
          /\ db[last.ticket].reports[j].machine # last.sub.machine

\* the submissions C4 is about
TurnedDown(sub) ==
    \/ sub.kind # "dict"
    \/ sub.missing # "none"
    \/ LastOf(sub.machine) \in BLACKLIST

\* C4: a submission that is no dict, lacks a required field or comes from a
\* blacklisted machine gets the error answer, and the request leaves the
\* stored tickets (reports, retry, last_activity) and the log store as they
\* were.
C4_RejectedLeavesStoreUntouched ==
    [][ (last'.op = "post" /\ TurnedDown(last'.sub))
        => (last'.answer = "error" /\ db' = db /\ logs' = logs) ]_svars

C4_Witness ==
    /\ last.op = "post" /\ TurnedDown(last.sub) /\ last.answer = "error"
    /\ db[last.ticket].retry = "True"
    /\ db[last.ticket].last_activity # now
    /\ \E i \in DOMAIN db[last.ticket].reports :
          /\ db[last.ticket].reports[i].status = "Pending"
          /\ db[last.ticket].reports[i].machine = last.sub.machine

AcceptedOffBase == last.op = "post" /\ last.ticket # 0 /\ last.answer = "ok"

\* C5 as stated: post_report stores a report on a ticket other than 0 only
\* if the same machine (same identity vector) has a TestsPassed or
\* TestsFailed report on ticket 0.
C5_GateBySameVector ==
    AcceptedOffBase =>
        \E i \in DOMAIN db[0].reports :
            /\ db[0].reports[i].machine = last.sub.machine
            /\ db[0].reports[i].status \in {"TestsPassed", "TestsFailed"}

\* the latest report of that host name on ticket 0 (the last stored one among
\* those of the latest time) is TestsPassed or TestsFailed
LatestOfHostIsGood(name) ==
    \E i \in DOMAIN db[0].reports :
        LET r == db[0].reports[i] IN
        /\ LastOf(r.machine) = name
        /\ r.status \in {"TestsPassed", "TestsFailed"}
        /\ \A j \in DOMAIN db[0].reports :
              LET q == db[0].reports[j] IN
              LastOf(q.machine) = name =>
                  (q.time < r.time \/ (q.time = r.time /\ j <= i))

\* C5, amended: post_report stores a report on a ticket other than 0 only if
\* ticket 0 is stored without a reports field, or the latest report on
\* ticket 0 from a machine of the same host name (last component of the
\* vector) is TestsPassed or TestsFailed; otherwise it is rejected. A
\* well-formed report on ticket 0 from a machine off the blacklist is stored.
C5_GateByHostName ==
    /\ (last.op = "post" /\ last.ticket # 0 /\ ~TurnedDown(last.sub)) =>
          (last.answer = "ok" <=>
              /\ db[0].exists
              /\ (~db[0].hasReports \/ LatestOfHostIsGood(LastOf(last.sub.machine))))
    /\ (last.op = "post" /\ last.ticket = 0 /\ ~TurnedDown(last.sub)) =>
          last.answer = "ok"

C5_Witness ==
    /\ AcceptedOffBase
    /\ db[0].hasReports
    /\ \A i \in DOMAIN db[0].reports : db[0].reports[i].machine # last.sub.machine
    /\ \E i, j \in DOMAIN db[0].reports :
          /\ LastOf(db[0].reports[i].machine) = LastOf(last.sub.machine)
          /\ LastOf(db[0].reports[j].machine) # LastOf(last.sub.machine)

\* C6: when db.remove_log raises while a Pending report is pruned, the report
\* is removed from the stored ticket all the same and the request completes:
\* post_report stores the new report and answers ok, render_ticket renders.
C6_PruneFaultTolerated ==
    last.raised =>
        /\ last.op = "post" => last.answer = "ok"
        /\ last.op = "render" => last.answer = "page"
        /\ \A i \in DOMAIN last.removed :
              Count(db[last.ticket].reports, last.removed[i]) = 0

\* C7: the key prune_pending asks the log store to release for a removed
\* report is log_name(ticket id, report), the key post_report stored the log
\* under; once the prune has returned no log of a removed report is left.
C7_ReleasedKeyIsStoredKey ==
    \A i \in DOMAIN last.asked :
        LET stored == log_name(StrOfId(last.ticket), last.asked[i].report) IN
        /\ last.asked[i].key = stored
        /\ ~last.raised => stored \notin logs

(***************************************************************************)
(* Properties of the worker's selection.                                   *)
(***************************************************************************)
Returned == sel.outcome \in {"testing", "idle"}

\* a <= b for tuples of integers, lexicographically, a proper prefix first
LexLeq(a, b) ==
    \/ a = b
    \/ \E k \in 0 .. Len(b) - 1 :
          /\ k <= Len(a)
          /\ \A i \in 1 .. k : a[i] = b[i]
          /\ (k = Len(a) \/ a[k + 1] < b[k + 1])

\* r1 <= r2 for ratings (uniqueness, bonus, -id); the baseline's integer
\* first component counts as the interpreter counts it, below every tuple
RatingLeq(r1, r2) ==
    LET f1 == IF r1.kind = "base" THEN <<>> ELSE <<1>> \o r1.uniq
        f2 == IF r2.kind = "base" THEN <<>> ELSE <<1>> \o r2.uniq
    IN  \/ (f1 # f2 /\ LexLeq(f1, f2))
        \/ (f1 = f2 /\ r1.bonus < r2.bonus)
        \/ (f1 = f2 /\ r1.bonus = r2.bonus /\ r1.negid <= r2.negid)

\* the returned pair is a fetched candidate with the rating rate_ticket gave
\* it, that rating is not None, no candidate's rating that is not None is
\* greater, and of equal uniqueness and bonus the smaller id is returned
MaximalPicked ==
    LET best == sel.picked[1] IN
    /\ best.rating.kind \in {"base", "tuple"}
    /\ \E i \in DOMAIN sel.all :
          /\ sel.all[i] = best.ticket
          /\ sel.pairs[i].rating = best.rating
    /\ \A i \in DOMAIN sel.pairs :
          LET r == sel.pairs[i].rating IN
          r.kind # "none" =>
              /\ RatingLeq(r, best.rating)
              /\ (r.kind = best.rating.kind /\ r.uniq = best.rating.uniq
                  /\ r.bonus = best.rating.bonus)
                 => best.ticket.id <= sel.pairs[i].ticket.id

\* a selection that returns gives the greatest candidate
ReturnedIsMaximal == Returned => MaximalPicked

\* C8: get_one_ticket, given candidates of which at least one has a rating
\* that is not None, returns a candidate whose rating is not None and is
\* maximal in the order of (uniqueness, bonus, -id) among the ratings that
\* are not None; among equal uniqueness and bonus the smaller id is returned.
C8_ReturnsMaximal ==
    (sel.outcome # "none"
     /\ \E i \in DOMAIN sel.pairs : sel.pairs[i].rating.kind \in {"base", "tuple"})
    => (Returned /\ MaximalPicked)

\* C9: when no fetched candidate has a rating (every one is rated None, or
\* the list is empty), the selection gives no ticket without raising and
\* test_a_ticket idles.
C9_NoSurvivorIdles ==
    (sel.outcome # "none"
     /\ \A i \in DOMAIN sel.pairs : sel.pairs[i].rating.kind = "none")
    => sel.outcome = "idle"

\* C10: rate_ticket never gives None for ticket 0, and its fixed rating is
\* not below the rating of any other eligible ticket: a selection the
\* baseline takes part in returns the baseline.
C10_BaselineWins ==
    /\ \A i \in DOMAIN sel.pairs :
          sel.pairs[i].ticket.id = 0 => sel.pairs[i].rating.kind = "base"
    /\ (sel.outcome # "none" /\ \E i \in DOMAIN sel.all : sel.all[i].id = 0)
       => (sel.outcome = "testing" /\ sel.picked[1].ticket.id = 0)

(***************************************************************************)
(* Properties of rate_ticket.                                              *)
(***************************************************************************)
\* the last call rated a ticket other than the baseline
RatedOther == rate_run.called /\ rate_run.ticket.id # 0

NotTrusted(names) ==
    \E i \in DOMAIN names : names[i] \notin rate_run.cfg.trusted_authors

\* an untrusted name in authors_fullnames is a veto
FullNameVeto ==
    (RatedOther /\ NotTrusted(rate_run.ticket.authors_fullnames))
    => rate_run.rating.kind = "none"

\* C11: for a ticket other than the baseline with an author, in
\* authors_fullnames or in authors, who is not in trusted_authors,
\* rate_ticket returns None, whatever the bonus table and the other fields.
C11_UntrustedVeto ==
    (RatedOther /\ (\/ NotTrusted(rate_run.ticket.authors_fullnames)
                    \/ NotTrusted(rate_run.ticket.authors)))
    => rate_run.rating.kind = "none"

\* the ticket misses one of the gates that come before the scoring
MissesGate(ticket) ==
    \/ ~ticket.git_branch
    \/ ticket.status \notin
          {"needs_review", "positive_review", "needs_info", "needs_work"}
    \/ ticket.milestone \in
          {"sage-duplicate/invalid/wontfix", "sage-feature", "sage-pending",
           "sage-wishlist"}
    \/ ticket.authors_fullnames = <<>>

\* C12: for a ticket other than the baseline that has no git branch, or a
\* status outside needs_review, positive_review, needs_info, needs_work, or
\* a milestone of the do-not-test set, or no declared author, rate_ticket
\* returns None; it computes no score and scans no report (a report whose
\* scan would raise does not make the call raise), and to_skip is untouched.
C12_GatesGiveNone ==
    (RatedOther /\ MissesGate(rate_run.ticket))
    => /\ rate_run.rating = NoneRating
       /\ rate_run.left = rate_run.entry

C12_Witness ==
    /\ RatedOther
    /\ rate_run.ticket.status = "closed"
    /\ rate_run.ticket.current # <<>>
    /\ ~rate_run.ticket.current[1].has_git_base
    /\ rate_run.rating = NoneRating

Unexpired == rate_run.entry # NoSkip /\ ~(rate_run.entry < rate_run.clock)

\* a ticket with an unexpired entry never gets a rating
SkipNeverRated == (RatedOther /\ Unexpired) => rate_run.rating.kind # "tuple"

\* C13: for a ticket other than the baseline with a to_skip entry whose
\* deadline has not passed rate_ticket returns None; once the deadline has
\* passed the call gives what it gives for a ticket without entry.
C13_SkipExcludes ==
    (RatedOther /\ rate_run.entry # NoSkip) =>
        IF Unexpired
        THEN rate_run.rating.kind = "none"
        ELSE [rate_run.rating EXCEPT !.purge = FALSE]
             = rate_ticket(rate_run.ticket, rate_run.cfg,
                           [t \in WorkerTicketIds |-> NoSkip], rate_run.clock)

\* a and b are equal over the first n components (all of them for None)
SamePrefix(a, b, machine_match) ==
    IF machine_match = <<>> THEN a = b
    ELSE /\ \A i \in 1 .. machine_match[1] :
               (i <= Len(a) /\ i <= Len(b)) => a[i] = b[i]
         /\ (Len(a) < machine_match[1] \/ Len(b) < machine_match[1])
            => Len(a) = Len(b)

\* the ticket's only current report is of a machine equal to the worker's
\* over the compared prefix and is no commit behind the worker's base
CoveredOnce(ticket, cfg) ==
    /\ Len(ticket.current) = 1
    /\ ticket.current[1].has_git_base
    /\ ticket.current[1].in_repo
    /\ ticket.current[1].behind = 0
    /\ SamePrefix(ticket.current[1].machine, cfg.machine, cfg.machine_match)

\* C14: for a ticket that passes the gates, is not flagged for retry, and
\* whose only current report comes from a machine equal to the worker's over
\* the compared prefix with commit distance 0, rate_ticket returns None.
C14_CoveredGivesNone ==
    (/\ RatedOther
     /\ ~MissesGate(rate_run.ticket)
     /\ ~NotTrusted(rate_run.ticket.authors_fullnames)
     /\ ~rate_run.ticket.retry
     /\ CoveredOnce(rate_run.ticket, rate_run.cfg))
    => rate_run.rating.kind = "none"

C14_Witness ==
    /\ RatedOther
    /\ ~MissesGate(rate_run.ticket)
    /\ ~NotTrusted(rate_run.ticket.authors_fullnames)
    /\ ~rate_run.ticket.retry
    /\ CoveredOnce(rate_run.ticket, rate_run.cfg)
    /\ rate_run.ticket.current[1].machine # rate_run.cfg.machine
    /\ rate_run.entry = NoSkip
    /\ rate_run.rating.kind = "none"

(***************************************************************************)
(* Properties of get_ticket_status.                                        *)
(***************************************************************************)
\* the statuses of the current reports the last call looked at
SeenStatuses ==
    StatusOf(FilteredReports(status_run.ticket, status_run.base, status_run.machine))

AllKnown == \A i \in DOMAIN SeenStatuses : SeenStatuses[i] \in KnownStatuses

AllShareOne == \A i, j \in DOMAIN SeenStatuses : SeenStatuses[i] = SeenStatuses[j]

\* the list without the repetitions of a status, first occurrences kept
RECURSIVE DistinctInOrder(_)
DistinctInOrder(list) ==
    IF list = <<>> THEN <<>>
    ELSE LET front == DistinctInOrder(SubSeq(list, 1, Len(list) - 1))
             x == list[Len(list)]
         IN  IF \E i \in DOMAIN front : front[i] = x THEN front
             ELSE Append(front, x)

StatusTriple(count, single, composite) ==
    [outcome |-> "return", count |-> count, single |-> single,
     composite |-> composite]

\* the composite status is the statuses of all the reports, in their order
CompositeInReportOrder ==
    (status_run.called /\ AllKnown /\ ~AllShareOne)
    => status_run.result.composite = JoinComma(SeenStatuses)

\* C15: when the current reports do not all share one status, the composite
\* status is the comma-joined list of the distinct statuses, each distinct
\* status once, in the order of their first occurrence in the report list.
C15_CompositeDistinct ==
    (status_run.called /\ AllKnown /\ ~AllShareOne)
    => /\ status_run.result.outcome = "return"
       /\ status_run.result.composite = JoinComma(DistinctInOrder(SeenStatuses))

\* the place of a known status in the published order
OrderIndex(status) ==
    CHOOSE i \in 1 .. Len(status_order) : status_order[i] = status

\* C16: when the current reports (after the machine filter) are not empty,
\* count is their number and single is the one of their statuses with the
\* smallest index in status_order; when they all share one status, single
\* and composite both are that status.
C16_CountAndSingle ==
    (status_run.called /\ SeenStatuses # <<>> /\ AllKnown)
    => /\ status_run.result.outcome = "return"
       /\ status_run.result.count = Len(SeenStatuses)
       /\ \E i \in DOMAIN SeenStatuses : SeenStatuses[i] = status_run.result.single
       /\ \A i \in DOMAIN SeenStatuses :
             OrderIndex(status_run.result.single) <= OrderIndex(SeenStatuses[i])
       /\ AllShareOne =>
             /\ status_run.result.single = SeenStatuses[1]
             /\ status_run.result.composite = SeenStatuses[1]

C16_Witness ==
    /\ status_run.called
    /\ AllKnown
    /\ Len(SeenStatuses) = 2
    /\ Len(status_run.ticket.reports) = 3
    /\ status_run.result.count = 2
    /\ status_run.result.single = "TestsFailed"
    /\ SeenStatuses[1] = "TestsPassed"

BareTicket ==
    /\ status_run.called
    /\ status_run.ticket.reports = <<>>
    /\ status_run.ticket.git_commit = <<>>
    /\ status_run.ticket.spkgs = <<>>

\* C17 as stated: for a ticket with no reports, no git_commit and empty
\* spkgs, get_ticket_status returns (0, 'New', 'New').
C17_BareTicketIsNew ==
    BareTicket => status_run.result = StatusTriple(0, "New", "New")

\* C17 as amended: for a ticket with no reports, no git_commit and empty
\* spkgs, get_ticket_status returns (0, 'NoPatch', 'NoPatch').
C17_BareTicketIsNoPatch ==
    BareTicket => status_run.result = StatusTriple(0, "NoPatch", "NoPatch")

C17_Witness == BareTicket /\ status_run.result.single = "NoPatch"

\* C18: for a ticket with non-empty spkgs and no current reports,
\* get_ticket_status returns (0, 'Spkg', 'Spkg'), with or without git_commit.
C18_SpkgWithoutReports ==
    (status_run.called /\ status_run.ticket.spkgs # <<>> /\ SeenStatuses = <<>>)
    => status_run.result = StatusTriple(0, "Spkg", "Spkg")

C18_Witness ==
    /\ status_run.called
    /\ status_run.ticket.spkgs # <<>>
    /\ status_run.ticket.git_commit = <<>>
    /\ status_run.ticket.reports # <<>>
    /\ SeenStatuses = <<>>
    /\ status_run.result.single = "Spkg"

\* C19: for a ticket with no current reports and empty spkgs,
\* get_ticket_status returns (0, 'NoPatch', 'NoPatch') when the ticket has no
\* git_commit and (0, 'New', 'New') when it has one.
C19_NoPatchOrNew ==
    (status_run.called /\ status_run.ticket.spkgs = <<>> /\ SeenStatuses = <<>>)
    => status_run.result =
          IF status_run.ticket.git_commit = <<>>
          THEN StatusTriple(0, "NoPatch", "NoPatch")
          ELSE StatusTriple(0, "New", "New")

C19_Witness ==
    /\ status_run.called
    /\ status_run.ticket.spkgs = <<>>
    /\ status_run.ticket.git_commit # <<>>
    /\ SeenStatuses = <<>>
    /\ status_run.result = StatusTriple(0, "New", "New")

\* C20: whatever reports are stored on it, a ticket with non-empty spkgs has
\* the derived status Spkg, and a ticket with empty spkgs and no git_commit
\* has the derived status NoPatch.
C20_SentinelWhateverReports ==
    status_run.called =>
        /\ status_run.ticket.spkgs # <<>> => status_run.result.single = "Spkg"
        /\ (status_run.ticket.spkgs = <<>> /\ status_run.ticket.git_commit = <<>>)
           => status_run.result.single = "NoPatch"

(***************************************************************************)
(* Properties of get_ticket_status and min_status under reordering, and of *)
(* the closed set of statuses.                                             *)
(***************************************************************************)
\* the ways to reorder a list of n elements
Perms(n) == { p \in [1 .. n -> 1 .. n] : \A i, j \in 1 .. n : p[i] = p[j] => i = j }

Shuffled(list, p) == [i \in DOMAIN list |-> list[p[i]]]

\* the ticket with its reports stored in another order
Reordered(ticket, p) == [ticket EXCEPT !.reports = Shuffled(ticket.reports, p)]

\* the call of status_run on the ticket with its reports reordered by p
ReorderedStatus(p) ==
    get_ticket_status(Reordered(status_run.ticket, p), status_run.base,
                      status_run.machine)

\* C21: get_ticket_status is deterministic in the report set: for two
\* tickets whose reports are the same set of reports, possibly stored in a
\* different order, with the same spkgs, git_commit, base and machine
\* filter, it returns the same triple (count, single, composite).
C21_SameSetSameTriple ==
    status_run.called
    => \A p \in Perms(Len(status_run.ticket.reports)) :
          ReorderedStatus(p) = status_run.result

\* C21, amended: for two such tickets get_ticket_status ends the same way
\* (returns or raises) and returns the same count and the same single
\* status; the composite status is the same when the reports are stored in
\* the same order or all share one status, and otherwise lists the statuses
\* in the order each ticket stores its reports.
C21_SameSetSameSingle ==
    status_run.called
    => \A p \in Perms(Len(status_run.ticket.reports)) :
          /\ ReorderedStatus(p).outcome = status_run.result.outcome
          /\ ReorderedStatus(p).count = status_run.result.count
          /\ ReorderedStatus(p).single = status_run.result.single
          /\ AllShareOne => ReorderedStatus(p).composite = status_run.result.composite
          /\ (AllKnown /\ ~AllShareOne)
             => ReorderedStatus(p).composite
                   = JoinComma(StatusOf(FilteredReports(
                         Reordered(status_run.ticket, p), status_run.base,
                         status_run.machine)))

C21_Witness ==
    /\ status_run.called
    /\ status_run.result.outcome = "return"
    /\ status_run.result.count = 3
    /\ \E p \in Perms(Len(status_run.ticket.reports)) :
          /\ ReorderedStatus(p).composite # status_run.result.composite
          /\ ReorderedStatus(p).single = status_run.result.single

\* the list min_status was called on
MinList == fn_run.status_list

MinCalled == fn_run.called /\ fn_run.fn = "min_status"

MinListKnown == \A i \in DOMAIN MinList : MinList[i] \in KnownStatuses

\* C22: for every non-empty list L of statuses from status_order,
\* min_status(L) is the element of L with the smallest index in
\* status_order, min_status of any permutation of L equals min_status(L),
\* and min_status([min_status(L)]) equals min_status(L).
C22_MinStatusLeast ==
    (MinCalled /\ MinList # <<>> /\ MinListKnown)
    => /\ ~fn_run.least.raised
       /\ \E i \in DOMAIN MinList : MinList[i] = fn_run.least.status
       /\ \A i \in DOMAIN MinList :
             OrderIndex(fn_run.least.status) <= OrderIndex(MinList[i])
       /\ \A p \in Perms(Len(MinList)) :
             min_status(Shuffled(MinList, p)) = fn_run.least
       /\ min_status(<< fn_run.least.status >>) = fn_run.least

C22_Witness ==
    /\ MinCalled
    /\ MinList = << "Pending", "TestsPassed", "ApplyFailed" >>
    /\ fn_run.least = [raised |-> FALSE, status |-> "ApplyFailed"]

\* C23: a status outside the known category set is never silently absorbed:
\* min_status raises for every list that contains such a status, at any
\* position, and get_ticket_status fails rather than returning a result
\* whenever a current report carries such a status, also when all current
\* reports agree on it.
C23_UnknownNeverAbsorbed ==
    (MinCalled /\ ~MinListKnown)
    => /\ fn_run.least.raised
       /\ fn_run.triple.outcome = "raise"

\* the sequence of status categories as published
PublishedOrder ==
    << "New", "ApplyFailed", "BuildFailed", "TestsFailed", "PluginFailed",
       "TestsPassed", "TestsPassedOnRetry", "Pending", "PluginOnlyFailed",
       "PluginOnly", "NoPatch", "Spkg" >>

PublishedStatuses == { PublishedOrder[i] : i \in DOMAIN PublishedOrder }

MinListPublished == \A i \in DOMAIN MinList : MinList[i] \in PublishedStatuses

OrderAsPublished ==
    /\ status_order = PublishedOrder
    /\ \A i, j \in DOMAIN status_order : status_order[i] = status_order[j] => i = j

CompareCalled == fn_run.called /\ fn_run.fn = "compare_machines"

\* how many components of a vector of length len are looked at
LookedAt(len) ==
    IF fn_run.machine_match = <<>> \/ len <= fn_run.machine_match[1]
    THEN len ELSE fn_run.machine_match[1]

\* the positions both vectors have after the truncation
ComparedPositions ==
    1 .. (IF LookedAt(Len(fn_run.a)) <= LookedAt(Len(fn_run.b))
          THEN LookedAt(Len(fn_run.a)) ELSE LookedAt(Len(fn_run.b)))

\* the result is one entry per compared position, 1 exactly where the vectors
\* differ, and then one more entry 1 exactly when trailing holds
DiffWithTrailing(trailing) ==
    /\ Len(fn_run.diff) = Cardinality(ComparedPositions) + (IF trailing THEN 1 ELSE 0)
    /\ \A i \in ComparedPositions :
          fn_run.diff[i] = (IF fn_run.a[i] # fn_run.b[i] THEN 1 ELSE 0)
    /\ trailing => fn_run.diff[Len(fn_run.diff)] = 1

\* C25: compare_machines(a, b, n) returns one entry per compared position of
\* the vectors truncated to n components (full length when n is None), 1
\* exactly where a and b differ at that position, followed by one trailing 1
\* exactly when the untruncated vectors a and b have different lengths.
C25_TrailingOnUntruncated ==
    CompareCalled => DiffWithTrailing(Len(fn_run.a) # Len(fn_run.b))

\* C25, amended: the same entries per compared position, followed by one
\* trailing 1 exactly when the vectors as truncated to n components have
\* different lengths.
C25_TrailingOnTruncated ==
    CompareCalled
    => DiffWithTrailing(LookedAt(Len(fn_run.a)) # LookedAt(Len(fn_run.b)))

C25_Witness ==
    /\ CompareCalled
    /\ fn_run.a = << "x", "y" >>
    /\ fn_run.b = << "x", "x", "y" >>
    /\ fn_run.machine_match = << 2 >>
    /\ fn_run.diff = << 0, 1 >>

\* the number of 1 entries of a difference vector
Ones(diff) == Cardinality({ i \in DOMAIN diff : diff[i] = 1 })

\* C26: for all machine vectors a, b and every prefix length n,
\* compare_machines(a, b, n) and compare_machines(b, a, n) have the same
\* number of 1 entries, and compare_machines(a, a, n) has none.
C26_SymmetricCount ==
    CompareCalled
    => /\ Ones(fn_run.diff)
          = Ones(compare_machines(fn_run.b, fn_run.a, fn_run.machine_match))
       /\ fn_run.a = fn_run.b => Ones(fn_run.diff) = 0

C26_Witness ==
    /\ CompareCalled
    /\ fn_run.a = << "x" >>
    /\ fn_run.b = << "y", "x" >>
    /\ fn_run.machine_match = <<>>
    /\ fn_run.diff = << 1, 1 >>

(***************************************************************************)
(* Properties of rate_ticket's scan of the current reports.                *)
(***************************************************************************)
\* the call went through the gates that come before the scoring
PassedGates ==
    /\ RatedOther
    /\ ~MissesGate(rate_run.ticket)
    /\ ~NotTrusted(rate_run.ticket.authors_fullnames)

\* the reports the call scans
ScannedReports ==
    IF rate_run.ticket.retry THEN <<>> ELSE rate_run.ticket.current

\* the scan came to its end
ScanDone == PassedGates /\ rate_run.rating.kind # "raise"

\* the commit distance in force at report i: the report's own when it
\* recorded its base (-1 when the base is unknown to the local repository),
\* else the one of the report before
RECURSIVE DistanceAt(_, _)
DistanceAt(reports, i) ==
    IF reports[i].has_git_base
    THEN (IF reports[i].in_repo THEN reports[i].behind ELSE -1)
    ELSE IF i = 1 THEN 0
    ELSE DistanceAt(reports, i - 1)

AllMatch(vector) == \A i \in DOMAIN vector : vector[i] = 0

\* the similarity vector of report i against the worker's machine, an
\* all-match vector being replaced when the distance in force is not zero
CoverageAt(i) ==
    LET similarity == compare_machines(ScannedReports[i].machine,
                                       rate_run.cfg.machine,
                                       rate_run.cfg.machine_match)
    IN  IF AllMatch(similarity) /\ DistanceAt(ScannedReports, i) # 0
        THEN <<0, 0, 0, 0, 1>> ELSE similarity

FullyDifferent == <<100>>

\* the smaller entry at each position over the vectors of all scanned reports
ComponentwiseLeast ==
    IF ScannedReports = <<>> THEN FullyDifferent
    ELSE [k \in DOMAIN CoverageAt(1) |->
             CHOOSE m \in { CoverageAt(i)[k] : i \in DOMAIN ScannedReports } :
                 \A i \in DOMAIN ScannedReports : m <= CoverageAt(i)[k]]

\* the first, in the lexicographic order of tuples, of the seed and the
\* vectors of all scanned reports
LexLeast ==
    CHOOSE v \in { FullyDifferent } \cup { CoverageAt(i) : i \in DOMAIN ScannedReports } :
        /\ LexLeq(v, FullyDifferent)
        /\ \A i \in DOMAIN ScannedReports : LexLeq(v, CoverageAt(i))

\* C27: the uniqueness vector rate_ticket returns is the componentwise
\* minimum, over all scanned current reports, of each report's similarity
\* vector against the worker's machine, seeded with the fully-different
\* value; so rate_ticket returns None whenever every compared component is
\* matched by at least one scanned report.
C27_ComponentwiseMinimum ==
    ScanDone
    => /\ rate_run.rating.kind = "tuple" => rate_run.rating.uniq = ComponentwiseLeast
       /\ AllMatch(ComponentwiseLeast) => rate_run.rating.kind = "none"

\* C27, amended: the uniqueness vector rate_ticket returns is the least, in
\* the lexicographic order of tuples, of the fully-different seed and the
\* vectors of all scanned current reports, that is the vector of the most
\* similar single report; rate_ticket returns None when that vector is
\* all-match, or when the ticket is under an unexpired cooldown, and a
\* rating with that vector otherwise.
C27_LexicographicMinimum ==
    ScanDone
    => IF AllMatch(LexLeast) \/ Unexpired
       THEN rate_run.rating.kind = "none"
       ELSE /\ rate_run.rating.kind = "tuple"
            /\ rate_run.rating.uniq = LexLeast

C27_Witness ==
    /\ ScanDone
    /\ Len(ScannedReports) = 2
    /\ CoverageAt(1) = <<1, 0, 0, 0, 0>>
    /\ CoverageAt(2) = <<0, 0, 0, 0, 1>>
    /\ rate_run.rating.kind = "tuple"
    /\ rate_run.rating.uniq = <<0, 0, 0, 0, 1>>

\* weight('behind')
BehindWeight == rate_run.cfg.bonus["behind"]

\* over the reports that recorded their base: the sum of their commit
\* distances, a base unknown to the local repository counting as unknown
RECURSIVE SumDistances(_, _)
SumDistances(reports, unknown) ==
    IF reports = <<>> THEN 0
    ELSE (IF ~Head(reports).has_git_base THEN 0
          ELSE IF Head(reports).in_repo THEN Head(reports).behind
          ELSE unknown)
         + SumDistances(Tail(reports), unknown)

\* the same call by a worker for whom weight('behind') is 0
WithoutStaleness ==
    rate_ticket(rate_run.ticket,
                [rate_run.cfg EXCEPT !.bonus = [rate_run.cfg.bonus EXCEPT !["behind"] = 0]],
                [t \in WorkerTicketIds |->
                    IF t = rate_run.ticket.id THEN rate_run.entry ELSE NoSkip],
                rate_run.clock)

GotRating == RatedOther /\ rate_run.rating.kind = "tuple"

OnlyReportOfSameMachine ==
    /\ PassedGates
    /\ Len(ScannedReports) = 1
    /\ ScannedReports[1].has_git_base
    /\ SamePrefix(ScannedReports[1].machine, rate_run.cfg.machine,
                  rate_run.cfg.machine_match)

\* C29: an all-match similarity vector of a report is replaced by the
\* low-but-nonzero sentinel only when the report's commit distance could
\* not be computed; a report from an identical machine whose distance was
\* computed, of any value, a positive one included, keeps its all-zero
\* vector and makes rate_ticket return None.
C29_SentinelOnlyWhenUnknown ==
    OnlyReportOfSameMachine
    => IF ScannedReports[1].in_repo
       THEN rate_run.rating.kind = "none"
       ELSE Unexpired \/ rate_run.rating.uniq = <<0, 0, 0, 0, 1>>

\* C29, amended: an all-match similarity vector of a report is replaced by
\* the sentinel (0, 0, 0, 0, 1) whenever the report's commit distance is not
\* zero, be it unknown or computed and positive; a report from an identical
\* machine keeps its all-zero vector and makes rate_ticket return None only
\* when its computed distance is 0.
C29_SentinelWhenNotZero ==
    OnlyReportOfSameMachine
    => IF ScannedReports[1].in_repo /\ ScannedReports[1].behind = 0
       THEN rate_run.rating.kind = "none"
       ELSE IF Unexpired THEN rate_run.rating.kind = "none"
       ELSE /\ rate_run.rating.kind = "tuple"
            /\ rate_run.rating.uniq = <<0, 0, 0, 0, 1>>

C29_Witness ==
    /\ OnlyReportOfSameMachine
    /\ ScannedReports[1].in_repo
    /\ ScannedReports[1].behind = 2
    /\ rate_run.rating.kind = "tuple"
    /\ rate_run.rating.uniq = <<0, 0, 0, 0, 1>>

\* weight(key): the entry of the bonus table, 0 for a key it does not have
Weight(key) ==
    IF key \in DOMAIN rate_run.cfg.bonus THEN rate_run.cfg.bonus[key] ELSE 0

RECURSIVE SumWeights(_)
SumWeights(keys) ==
    IF keys = <<>> THEN 0 ELSE Weight(Head(keys)) + SumWeights(Tail(keys))

\* the scanned reports whose status is not ApplyFailed
Applying == { i \in DOMAIN ScannedReports : ScannedReports[i].status # "ApplyFailed" }

\* C30: for an eligible ticket, the bonus_score rate_ticket returns, apart
\* from the staleness term, is 2*weight(a) summed over each author, plus
\* weight(p) summed over each participant, plus the weights of the
\* component, the tracker status, the tracker priority and str(id), plus,
\* for each scanned current report, weight('applies') if its status is not
\* ApplyFailed, minus weight('unique'); unknown keys weigh 0.
C30_BonusScore ==
    GotRating
    => rate_run.rating.bonus - BehindWeight * SumDistances(ScannedReports, -1)
          = 2 * SumWeights(rate_run.ticket.authors_fullnames \o rate_run.ticket.authors)
            + SumWeights(rate_run.ticket.participants)
            + (IF rate_run.ticket.component = "absent" THEN 0
               ELSE Weight(rate_run.ticket.component))
            + Weight(rate_run.ticket.status)
            + Weight(rate_run.ticket.priority)
            + Weight(ToString(rate_run.ticket.id))
            + Cardinality(Applying) * Weight("applies")
            - Len(ScannedReports) * Weight("unique")

C30_Witness ==
    /\ GotRating
    /\ rate_run.ticket.participants = << "alice", "bob" >>
    /\ rate_run.ticket.component = "combinatorics"
    /\ rate_run.cfg.machine_match = <<4>>
    /\ ScannedReports = <<>>
    /\ rate_run.rating.bonus = 1048

(***************************************************************************)
(* The retry flag, from the kick to the worker's rating.                   *)
(***************************************************************************)
\* the points of the ticket rate_run is about, without any report
PointsWithoutReports ==
    2 * SumWeights(rate_run.ticket.authors_fullnames \o rate_run.ticket.authors)
    + SumWeights(rate_run.ticket.participants)
    + (IF rate_run.ticket.component = "absent" THEN 0
       ELSE Weight(rate_run.ticket.component))
    + Weight(rate_run.ticket.status)
    + Weight(rate_run.ticket.priority)
    + Weight(ToString(rate_run.ticket.id))

\* a ticket flagged for retry is rated without a look at its reports
RetryScansNothing ==
    (PassedGates /\ rate_run.ticket.retry)
    => IF Unexpired THEN rate_run.rating.kind = "none"
       ELSE /\ rate_run.rating.kind = "tuple"
            /\ rate_run.rating.uniq = FullyDifferent
            /\ rate_run.rating.bonus = PointsWithoutReports

\* a kick sets the flag of a ticket the server knows
KickSetsRetry ==
    \A t \in TicketIds :
        (last'.op = "render" /\ last'.ticket = t /\ last'.kick /\ last' # last
         /\ last'.answer # "No such ticket.")
        => db'[t].retry = "True"

\* the flag is taken back by an accepted report on the ticket and by
\* nothing else, and every accepted report takes it back
RetryUntilReport ==
    \A t \in TicketIds :
        /\ (db[t].retry = "True" /\ db'[t].retry # "True")
           => (last'.op = "post" /\ last'.ticket = t /\ last'.answer = "ok")
        /\ (db[t].retry = "True" /\ posts' = posts + 1 /\ last'.ticket = t)
           => db'[t].retry = "False"

\* C31: for a ticket flagged for forced retry rate_ticket scans no report:
\* the result has the fully-different uniqueness vector and a bonus_score
\* without any per-report term, and the ticket is never excluded for
\* duplicate coverage, whatever reports it carries. The flag, set by a kick,
\* stays true until the next report accepted by post_report on that ticket,
\* which resets it to false.
C31_RetryScansNothing ==
    /\ []RetryScansNothing
    /\ [][KickSetsRetry /\ RetryUntilReport]_vars

C31_Witness ==
    /\ db[1].retry = "True"
    /\ rate_run.called
    /\ rate_run.ticket.retry
    /\ Len(rate_run.ticket.current) = 2
    /\ rate_run.ticket.current[1].machine = StoreConfig.machine
    /\ rate_run.rating.kind = "tuple"
    /\ rate_run.rating.uniq = <<100>>
    /\ rate_run.rating.bonus = 1010

(***************************************************************************)
(* The cooldown table under rate_ticket.                                   *)
(***************************************************************************)
\* a step that is a rate_ticket call
RateStep == rate_run' # rate_run

\* the entry the call found for its ticket had run out
FoundExpired(run) == run.entry # NoSkip /\ run.entry < run.clock

\* C32: after rate_ticket has been called for a ticket id whose to_skip
\* deadline has passed, to_skip no longer contains that id; and rate_ticket
\* never removes or changes the entry of a ticket whose deadline has not
\* passed, nor the entry of any other ticket.
C32_PurgedByEveryCall ==
    [][RateStep =>
          \A t \in WorkerTicketIds :
              to_skip'[t] = IF t = rate_run'.ticket.id /\ FoundExpired(rate_run')
                            THEN NoSkip ELSE to_skip[t]]_vars

\* C32, amended: a rate_ticket call deletes the entry of its ticket exactly
\* when the deadline has passed and the call gets as far as the cooldown
\* test, that is when it returns a rating (uniqueness, bonus, -id); a call
\* that returns the baseline's rating, or None at a gate or for duplicate
\* coverage, or that raises, leaves the entry; and no
\* call removes or changes the entry of a ticket whose deadline has not
\* passed, nor the entry of any other ticket.
C32_PurgedWhenRated ==
    [][RateStep =>
          \A t \in WorkerTicketIds :
              to_skip'[t] = IF /\ t = rate_run'.ticket.id
                               /\ FoundExpired(rate_run')
                               /\ rate_run'.rating.kind = "tuple"
                            THEN NoSkip ELSE to_skip[t]]_vars

C32_Witness ==
    /\ rate_run.called
    /\ FoundExpired(rate_run)
    /\ rate_run.rating.kind = "tuple"
    /\ rate_run.left = NoSkip
    /\ to_skip[rate_run.ticket.id] = NoSkip

(***************************************************************************)
(* The cooldown a test leaves.                                             *)
(***************************************************************************)
\* a step in which test_a_ticket took a ticket and tested it
TestStep == sel' # sel /\ sel'.outcome = "testing"

Tested == sel'.picked[1].ticket.id

\* the entry of the tested ticket after the test, by the way the test ended
DeadlineByFate ==
    /\ sel'.fate = "network_error" => to_skip'[Tested] = wnow + 60 * 60
    /\ sel'.fate = "skipped" => to_skip'[Tested] = wnow + SecondsTillRetry
    /\ sel'.fate \in {"spkg", "exception"} => to_skip'[Tested] = wnow + 12 * 60 * 60
    /\ sel'.fate = "tested" => to_skip'[Tested] \in {NoSkip, to_skip[Tested]}

\* the ticket taken had no entry, or one whose deadline had passed
NotUnderCooldown(t) == to_skip[t] = NoSkip \/ to_skip[t] < wnow

\* C33: after a test attempt on ticket T by test_a_ticket the cooldown for
\* T is determined by the outcome: a network or trac failure registers a
\* deadline of now + 1 hour, a SkipTicket a deadline of now + its
\* seconds_till_retry, a ticket with spkgs or any other exception a deadline
\* of now + 12 hours, a test that runs to completion on a ticket without
\* spkgs registers no entry; until a registered deadline passes T is not
\* selected again by this worker.
C33_CooldownByOutcome ==
    [][TestStep => (DeadlineByFate /\ NotUnderCooldown(Tested))]_vars

\* C33, amended: the same deadlines by outcome; until a registered deadline
\* passes a ticket T other than the baseline is not selected again by this
\* worker, while the baseline, rated before the cooldown test, is selected
\* whatever its entry, which a completed test leaves as it is.
C33_CooldownButBaseline ==
    [][TestStep =>
          /\ DeadlineByFate
          /\ Tested # 0 => NotUnderCooldown(Tested)
          /\ sel'.fate = "tested" =>
                to_skip'[Tested] = IF Tested = 0 THEN to_skip[0] ELSE NoSkip]_vars

C33_Witness ==
    /\ sel.outcome = "testing"
    /\ sel.fate = "skipped"
    /\ sel.picked[1].ticket.id = 2
    /\ Len(sel.all) = 2
    /\ sel.all[1].id = 1
    /\ to_skip[1] = 60 * 60
    /\ to_skip[2] = wnow + 2 * 60 * 60
    /\ wnow = 60 * 60

(***************************************************************************)
(* What prune_pending returns.                                             *)
(***************************************************************************)
PruneReturned == last.pruned /\ ~last.raised

\* C34: prune_pending returns the reports it removed: the returned list
\* holds exactly the Pending reports dropped by this call (it is empty when
\* nothing was dropped) and none of the reports that remain on the ticket.
C34_ReturnsRemoved ==
    PruneReturned
    => /\ last.returned = last.removed
       /\ \A i \in DOMAIN last.returned :
             Count(last.pruneOut, last.returned[i]) = 0

\* C34, amended: prune_pending returns the reports that remain: the
\* returned list is the ticket's report list after the removal, that is the
\* list it was given without the Pending reports dropped by this call, in
\* the same order, and it is this list the caller goes on to store.
C34_ReturnsRemaining ==
    PruneReturned
    => /\ IsSubseq(last.returned, last.pruneIn)
       /\ \A i \in DOMAIN last.pruneIn :
             Count(last.pruneIn, last.pruneIn[i])
                = Count(last.returned, last.pruneIn[i])
                  + Count(last.removed, last.pruneIn[i])
       /\ last.op = "post"
          => db[last.ticket].reports
                = Append(last.returned,
                         Report(last.sub.status, last.sub.machine, last.sub.time))
       /\ (last.op = "render" /\ last.removed # <<>>)
          => db[last.ticket].reports = last.returned

C34_Witness ==
    /\ PruneReturned
    /\ last.op = "render"
    /\ Len(last.removed) = 1
    /\ Len(last.returned) = 2
    /\ db[last.ticket].reports = last.returned

(***************************************************************************)
(* The stored report list from one request to the next.                    *)
(***************************************************************************)
\* the reports of b that a does not keep are all Pending
OnlyPendingMissing(a, b) ==
    \A i \in DOMAIN b : b[i].status # "Pending" => Count(a, b[i]) = Count(b, b[i])

\* new is old without some Pending reports, in the order of old
KeepsOrder(new, old) == IsSubseq(new, old) /\ OnlyPendingMissing(new, old)

\* C35: through any sequence of post_report and render_ticket operations
\* the stored report list of a ticket is the accepted reports in arrival
\* order with only pruned Pending reports missing: each request leaves the
\* stored reports in the order they had, with at most Pending reports
\* taken out and at most the accepted report added at the end; stored
\* reports are never reordered and never edited in place.
C35_ArrivalOrderKept ==
    [][\A t \in DOMAIN db :
          LET old == db[t].reports
              new == db'[t].reports
          IN  \/ KeepsOrder(new, old)
              \/ /\ last'.op = "post" /\ last'.answer = "ok" /\ last'.ticket = t
                 /\ new # <<>>
                 /\ new[Len(new)]
                       = Report(last'.sub.status, last'.sub.machine, last'.sub.time)
                 /\ KeepsOrder(SubSeq(new, 1, Len(new) - 1), old)]_vars

(***************************************************************************)
(* Two post_report requests on one ticket.                                 *)
(***************************************************************************)
AllAnswered == \A m \in RaceMachines : req[m].pc = "idle"

Stored(t, r) == \E i \in DOMAIN db[t].reports : db[t].reports[i] = r

\* C36: under every interleaving of two post_report requests from two
\* different machines on the same ticket, once both have answered ok both
\* reports are in the stored report list: no accepted report is lost (the
\* last report accepted from each machine and every accepted report that is
\* not Pending is stored) and no Pending report pruned by one request
\* reappears (a Pending report that a later report of its machine replaced
\* is not stored).
C36_NoLostUpdate ==
    AllAnswered
    => \A m \in RaceMachines :
          LET acc == req[m].accepted
          IN  \A i \in DOMAIN acc :
                 /\ (i = Len(acc) \/ acc[i].status # "Pending")
                    => Stored(0, acc[i])
                 /\ (i < Len(acc) /\ acc[i].status = "Pending"
                       /\ acc[i] # acc[Len(acc)])
                    => ~Stored(0, acc[i])

(***************************************************************************)
(* How long a Pending report stays stored.                                 *)
(***************************************************************************)
\* the last request on the ticket went as far as prune_pending
Handled == last.op \in {"post", "render"} /\ last.pruned

Expired(r, clock) == clock - r.time > DefaultTimeout

\* no Pending report older than the timeout is stored after a post_report
\* or a render_ticket of the ticket
ExpiredRemoved ==
    Handled
    => \A i \in DOMAIN db[last.ticket].reports :
          LET r == db[last.ticket].reports[i]
          IN  r.status = "Pending" => ~Expired(r, last.clock)

\* a Pending report within its timeout leaves the stored ticket only with
\* an accepted report of its own machine
RemovedEarlyOnlyByOwner ==
    \A t \in DOMAIN db :
       \A i \in DOMAIN db[t].reports :
          LET r == db[t].reports[i]
          IN  (/\ r.status = "Pending"
               /\ ~Expired(r, now)
               /\ Count(db'[t].reports, r) < Count(db[t].reports, r))
              => /\ last'.op = "post"
                 /\ last'.answer = "ok"
                 /\ last'.ticket = t
                 /\ last'.sub.machine = r.machine

\* C37: a Pending report left by a worker that never reports again does not
\* stay forever: once its age exceeds the timeout, the next post_report on
\* that ticket (from any machine) or the next render_ticket of that ticket
\* removes it from the stored ticket; and before its timeout it is removed
\* from the stored ticket only by a report from the same machine, never by
\* a status read or by another machine's report.
C37_LeaseExpires == []ExpiredRemoved /\ [][RemovedEarlyOnlyByOwner]_vars

\* the same when no db.remove_log call raised in the request
ExpiredRemovedUnlessFault == (Handled /\ ~last.raised) => ExpiredRemoved

(***************************************************************************)
(* The main loop after a test.                                             *)
(***************************************************************************)
\* a step of the loop that tested a ticket
LoopTested == loop.pc = "loop" /\ loop'.res # "" /\ loop' # loop

\* C40: in the worker main loop, after each test_a_ticket: if the result
\* is BuildFailed or TestsFailed the worker re-tests ticket 0 before taking
\* another ticket, runs distclean and re-tests ticket 0 once more if that
\* baseline test is not a success, and exits if it still is not; if the
\* result is not a failure status the loop proceeds to its next iteration
\* without re-testing the baseline and without terminating.
C40_BaselineRecheck ==
    [][LoopTested =>
         LET after == loop'.after
             Good(c) == c.res \in {"TestsPassed", "PluginOnly"}
         IN  IF loop'.res \in {"BuildFailed", "TestsFailed"}
             THEN /\ after # <<>>
                  /\ after[1].fn = "test_a_ticket" /\ after[1].ticket = 0
                  /\ Good(after[1]) => (Len(after) = 1 /\ loop'.pc = "loop")
                  /\ ~Good(after[1])
                     => /\ Len(after) = 3
                        /\ after[2].fn = "distclean"
                        /\ after[3].fn = "test_a_ticket" /\ after[3].ticket = 0
                        /\ loop'.pc = IF Good(after[3]) THEN "loop" ELSE "exit"
             ELSE /\ after = <<>>
                  /\ loop'.pc = "loop"
                  /\ loop'.k = loop.k + 1]_vars

(***************************************************************************)
(* rate_ticket and the order of the current reports.                       *)
(***************************************************************************)
\* the skip list as the call of rate_run found it for its ticket
SkipAtCall ==
    [t \in WorkerTicketIds |->
        IF t = rate_run.ticket.id THEN rate_run.entry ELSE NoSkip]

\* the call of rate_run on the ticket with its current reports reordered by p
ReorderedRating(p) ==
    rate_ticket([rate_run.ticket EXCEPT !.current = Shuffled(@, p)],
                rate_run.cfg, SkipAtCall, rate_run.clock)

\* C39: the result of rate_ticket does not depend on the order of the
\* ticket's current reports: each report's contribution to bonus_score and
\* to the uniqueness vector is a function of that report and the worker
\* configuration alone, and a report that recorded no git_base contributes
\* no staleness term and takes no commit distance from another report (so
\* the call returns, whatever the position of such a report).
C39_OrderIndependent ==
    rate_run.called
    => /\ \A p \in Perms(Len(rate_run.ticket.current)) :
             ReorderedRating(p) = rate_run.rating
       /\ rate_run.rating.kind # "raise"

(***************************************************************************)
(* The timed cache.                                                        *)
(***************************************************************************)
ThisCall == memo.run

\* the last computation for the arguments of the call, the call's own
\* included
LastComputed == memo.computed[<< ThisCall.fn, ThisCall.args >>]

\* C38: for a function wrapped by timed_cached_function(refresh_rate),
\* every call returns a value that the underlying function computed for the
\* same arguments less than refresh_rate seconds before the call (or during
\* it), and a call made less than refresh_rate seconds after the last
\* computation for those arguments does not invoke the underlying function;
\* latest_base uses a 60 second refresh. The time of a computation is the
\* time of the call that made it.
C38_TimedCache ==
    ThisCall.called
    => /\ LastComputed # <<>>
       /\ ThisCall.res = LastComputed[1].value
       /\ ThisCall.res.fn = ThisCall.fn /\ ThisCall.res.args = ThisCall.args
       /\ ThisCall.at - LastComputed[1].at
             < (IF ThisCall.fn = "latest_base" THEN 60 ELSE 10)
       /\ ThisCall.invoked
          => (LastComputed[1].at = ThisCall.at
                /\ ThisCall.res.data >= LastComputed[1].value.data)
       /\ (/\ ThisCall.prev # <<>>
           /\ ThisCall.at - ThisCall.prev[1].at
                 < (IF ThisCall.fn = "latest_base" THEN 60 ELSE 10))
          => (~ThisCall.invoked /\ ThisCall.res = ThisCall.prev[1].value)
       /\ (ThisCall.fn = "latest_base" /\ ThisCall.prev # <<>>)
          => (ThisCall.invoked <=> ThisCall.at - ThisCall.prev[1].at >= 60)

\* a latest_base() call 59 seconds after the computation gives the cached
\* value although ticket 0 has changed since
C38_Witness ==
    /\ ThisCall.called
    /\ ThisCall.fn = "latest_base"
    /\ ~ThisCall.invoked
    /\ ThisCall.prev # <<>>
    /\ ThisCall.at - ThisCall.prev[1].at = 59
    /\ ThisCall.res.data < memo.data

====
